---------------------------- MODULE Spec2Model ----------------------------
(***************************************************************************)
(* Overtime tracker: the overtime engine of src/services/timeService.ts    *)
(* (getDayType, roundToBlocks, calculateOvertime, the holiday list) and    *)
(* the clock-in / clock-out handlers that call it against the work_logs    *)
(* table.                                                                  *)
(*                                                                         *)
(* Units.  An instant (a JavaScript Date) is an integer number of          *)
(* milliseconds of local time since local midnight of 1970-01-01, a        *)
(* Thursday.  A date string 'yyyy-MM-dd' is the number of its calendar     *)
(* day (0 = 1970-01-01).  Money is exact: an amount is an integer number   *)
(* of 1/AmountDen ringgit, so that hours * BASE_HOURLY_RATE * RATE is      *)
(* computed without rounding.  Rate multipliers are in tenths (15 = 1.5).  *)
(* The *Hours fields of the breakdown are in 1/60 hour.                    *)
(***************************************************************************)
EXTENDS Integers, Sequences, FiniteSets, TLC

VARIABLES
    PUBLIC_HOLIDAYS,  \* timeService.ts:33, the module-level holiday list
    call,             \* an engine call: its function and arguments
    result,           \* what that call returned
    now,              \* the wall clock read by new Date()
    work_logs,        \* the rows of the work_logs table; a row's id is its index
    audit,            \* per row: how the row was priced (history, not read by the code)
    dashboards,       \* per client: the Dashboard's state and its handler in flight
    advances,         \* how many times the clock has advanced
    failures,         \* how many store calls have failed
    session,          \* per client: the user signed in (Dashboard's session.user.id)
    history,          \* the last two calculateOvertime calls and what they returned
    lastUpdate        \* the last setPublicHolidays / addPublicHolidays call

engineVars == <<call, result, history, lastUpdate>>
storeVars == <<now, work_logs, audit, dashboards, advances, failures, session>>
vars == <<PUBLIC_HOLIDAYS, call, result, now, work_logs, audit, dashboards, advances, failures,
          session, history, lastUpdate>>

---------------------------------------------------------------------------
(* Constants of timeService.ts:8-26 *)

BASIC_SALARY == 3200
WORK_DAYS_PER_MONTH == 26
HOURS_PER_DAY == 8
BLOCK_MINUTES == 30
RATE_1X == 10
RATE_1_5X == 15
RATE_2X == 20
RATE_3X == 30
WEEKDAY_FIXED_OT_MINUTES == 600
WEEKEND_FIRST_TIER_MINUTES == 360
PUBLIC_HOLIDAY_FIRST_TIER_MINUTES == 540
MEAL_ALLOWANCE == 30

\* One ringgit in money units: the denominator of
\* (minutes / 60) * (BASIC_SALARY / WORK_DAYS_PER_MONTH / HOURS_PER_DAY) * (RATE / 10).
AmountDen == 60 * WORK_DAYS_PER_MONTH * HOURS_PER_DAY * 10

MsPerMinute == 60 * 1000
MsPerDay == 24 * 60 * MsPerMinute

\* The optional boolean isPublicHolidayOverride is one of these three values.
JsTrue == "true"
JsFalse == "false"
Undefined == "undefined"

---------------------------------------------------------------------------
(* Bounds of the model *)

\* Calendar days 0..MaxDay are the days instants are drawn from.
MaxDay == 4
\* Longest session, and largest cumulative value, in minutes.
MaxMinutes == 720
\* Longest holiday list passed to setPublicHolidays / addPublicHolidays.
MaxHolidays == 2
\* Most rows the work_logs table holds.
MaxLogs == 2
\* Most times the wall clock advances.
MaxAdvances == 2
\* Most store calls that fail in one run.
MaxSessions == 3
MaxFailures == 1

---------------------------------------------------------------------------
(* date-fns *)

\* Math.trunc(a / b) for b > 0: rounds toward zero.
Trunc(a, b) == IF a >= 0 THEN a \div b ELSE -((-a) \div b)

\* Math.ceil(a / b) for b > 0.
Ceil(a, b) == -((-a) \div b)

\* differenceInMinutes(later, earlier): full minutes, truncated toward zero.
differenceInMinutes(dateLeft, dateRight) == Trunc(dateLeft - dateRight, MsPerMinute)

\* format(date, 'yyyy-MM-dd'): the local calendar day of the instant.
format(date) == date \div MsPerDay

\* getDay: 0 = Sunday .. 6 = Saturday; day 0 is a Thursday.
getDay(date) == (format(date) + 4) % 7
isSaturday(date) == getDay(date) = 6
isSunday(date) == getDay(date) = 0

\* new Date(dateStr + 'T00:00:00') and new Date(dateStr + 'T23:59:59').
dayStartOf(dateStr) == dateStr * MsPerDay
dayEndOf(dateStr) == dateStr * MsPerDay + (23 * 60 + 59) * MsPerMinute + 59 * 1000

---------------------------------------------------------------------------
(* Sequences *)

Range(s) == {s[i] : i \in 1..Len(s)}

\* Array.prototype.includes
includes(s, x) == \E i \in 1..Len(s) : s[i] = x

\* Dedup keeping every occurrence.
Dedup_KeepAll(s) == s

\* Array.from(new Set(s)): the first occurrence of each element, in order.
RECURSIVE Dedup(_)
Dedup(s) ==
    IF s = <<>> THEN <<>>
    ELSE LET init == Dedup(SubSeq(s, 1, Len(s) - 1))
             last == s[Len(s)]
         IN IF includes(init, last) THEN init ELSE Append(init, last)

---------------------------------------------------------------------------
(* Day classification, timeService.ts:67-91 *)

isPublicHoliday(date) ==
    LET dateStr == format(date)
    IN includes(PUBLIC_HOLIDAYS, dateStr)

\* getDayType with the weekend test ahead of the holiday list.
getDayType_WeekendFirst(date, isPublicHolidayOverride) ==
    IF isPublicHolidayOverride = JsTrue THEN "public_holiday"
    ELSE IF isSaturday(date) \/ isSunday(date) THEN "weekend"
    ELSE IF isPublicHoliday(date) THEN "public_holiday"
    ELSE "weekday"

getDayType(date, isPublicHolidayOverride) ==
    IF isPublicHolidayOverride = JsTrue THEN "public_holiday"
    ELSE IF isPublicHoliday(date) THEN "public_holiday"
    ELSE IF isSaturday(date) \/ isSunday(date) THEN "weekend"
    ELSE "weekday"

---------------------------------------------------------------------------
(* Block rounding, timeService.ts:130-132 *)

\* roundToBlocks as "the next block": floor plus one.
roundToBlocks_NextBlock(minutes) == ((minutes \div BLOCK_MINUTES) + 1) * BLOCK_MINUTES

\* roundToBlocks rounding down to whole blocks.
roundToBlocks_Floor(minutes) == (minutes \div BLOCK_MINUTES) * BLOCK_MINUTES

roundToBlocks(minutes) == Ceil(minutes, BLOCK_MINUTES) * BLOCK_MINUTES

\* hours * BASE_HOURLY_RATE * RATE with hours = roundedMinutes / 60, in money units.
PriceOf(roundedMinutes, rate) == roundedMinutes * BASIC_SALARY * rate

\* A ringgit amount in money units.
Ringgit(n) == n * AmountDen

---------------------------------------------------------------------------
(* calculateOvertime, timeService.ts:148-294 *)

\* The breakdown as initialised at timeService.ts:159-179.
\* InitialBreakdown reusing the object of the call before, its tier fields not reset.
InitialBreakdown_Reused(totalMinutes, dayType, isOutstationOvernight) ==
    LET fresh ==
          [ duration |-> totalMinutes,
            dayType |-> dayType,
            fixedOTHours |-> 0, fixedOTMinutes |-> 0,
            otHours1x |-> 0, otHours1_5x |-> 0, otHours2x |-> 0, otHours3x |-> 0,
            otMinutes1x |-> 0, otMinutes1_5x |-> 0, otMinutes2x |-> 0, otMinutes3x |-> 0,
            otAmount1x |-> 0, otAmount1_5x |-> 0, otAmount2x |-> 0, otAmount3x |-> 0,
            mealAllowance |-> IF isOutstationOvernight = TRUE THEN Ringgit(MEAL_ALLOWANCE) ELSE 0,
            totalOTAmount |-> 0,
            totalAmount |-> 0 ]
    IN IF history = <<>> THEN fresh
       ELSE [history[1].value EXCEPT !.duration = totalMinutes, !.dayType = dayType,
                                     !.mealAllowance = fresh.mealAllowance]

\* InitialBreakdown with the allowance granted only to a session with minutes.
InitialBreakdown_AllowanceWhenWorked(totalMinutes, dayType, isOutstationOvernight) ==
    [ duration |-> totalMinutes,
      dayType |-> dayType,
      fixedOTHours |-> 0, fixedOTMinutes |-> 0,
      otHours1x |-> 0, otHours1_5x |-> 0, otHours2x |-> 0, otHours3x |-> 0,
      otMinutes1x |-> 0, otMinutes1_5x |-> 0, otMinutes2x |-> 0, otMinutes3x |-> 0,
      otAmount1x |-> 0, otAmount1_5x |-> 0, otAmount2x |-> 0, otAmount3x |-> 0,
      mealAllowance |-> IF isOutstationOvernight = TRUE /\ totalMinutes > 0
                          THEN Ringgit(MEAL_ALLOWANCE) ELSE 0,
      totalOTAmount |-> 0,
      totalAmount |-> 0 ]

InitialBreakdown(totalMinutes, dayType, isOutstationOvernight) ==
    [ duration |-> totalMinutes,
      dayType |-> dayType,
      fixedOTHours |-> 0, fixedOTMinutes |-> 0,
      otHours1x |-> 0, otHours1_5x |-> 0, otHours2x |-> 0, otHours3x |-> 0,
      otMinutes1x |-> 0, otMinutes1_5x |-> 0, otMinutes2x |-> 0, otMinutes3x |-> 0,
      otAmount1x |-> 0, otAmount1_5x |-> 0, otAmount2x |-> 0, otAmount3x |-> 0,
      mealAllowance |-> IF isOutstationOvernight = TRUE THEN Ringgit(MEAL_ALLOWANCE) ELSE 0,
      totalOTAmount |-> 0,
      totalAmount |-> 0 ]

\* SplitAt with the remainder of a straddling session not reduced by the
\* minutes that went to the first tier.
SplitAt_RemainderNotReduced(threshold, cumulativeMinutesWorkedToday, remainingMinutes) ==
    LET totalCumulativeMinutes == cumulativeMinutesWorkedToday + remainingMinutes
    IN IF cumulativeMinutesWorkedToday >= threshold
         THEN <<0, remainingMinutes>>
       ELSE IF totalCumulativeMinutes > threshold
         THEN <<threshold - cumulativeMinutesWorkedToday, remainingMinutes>>
       ELSE <<remainingMinutes, 0>>

\* SplitAt as the superseded variant computed it: on the session's own minutes.
SplitAt_PerSession(threshold, cumulativeMinutesWorkedToday, remainingMinutes) ==
    IF remainingMinutes > threshold
      THEN <<threshold, remainingMinutes - threshold>>
      ELSE <<remainingMinutes, 0>>

\* SplitAt with the two tiers of a straddling session exchanged.
SplitAt_StraddleSwapped(threshold, cumulativeMinutesWorkedToday, remainingMinutes) ==
    LET totalCumulativeMinutes == cumulativeMinutesWorkedToday + remainingMinutes
    IN IF cumulativeMinutesWorkedToday >= threshold
         THEN <<0, remainingMinutes>>
       ELSE IF totalCumulativeMinutes > threshold
         THEN LET minutesInFirst == threshold - cumulativeMinutesWorkedToday
              IN <<remainingMinutes - minutesInFirst, minutesInFirst>>
       ELSE <<remainingMinutes, 0>>

\* The three-way split of timeService.ts:193-210 (and 216-233, 239-256):
\* <<minutes in the first tier, minutes in the overflow tier>>.
SplitAt(threshold, cumulativeMinutesWorkedToday, remainingMinutes) ==
    LET totalCumulativeMinutes == cumulativeMinutesWorkedToday + remainingMinutes
    IN IF cumulativeMinutesWorkedToday >= threshold
         THEN <<0, remainingMinutes>>
       ELSE IF totalCumulativeMinutes > threshold
         THEN LET minutesInFirst == threshold - cumulativeMinutesWorkedToday
              IN <<minutesInFirst, remainingMinutes - minutesInFirst>>
       ELSE <<remainingMinutes, 0>>

\* Tiered with the weekend first tier written to the fixed-OT fields and the
\* 1.0x minutes kept as well.
Tiered_WeekendAlsoFixed(b, cumulativeMinutesWorkedToday) ==
    LET remainingMinutes == b.duration
    IN IF b.dayType = "weekday" THEN
         LET p == SplitAt(WEEKDAY_FIXED_OT_MINUTES, cumulativeMinutesWorkedToday, remainingMinutes)
         IN [b EXCEPT !.fixedOTMinutes = p[1], !.fixedOTHours = p[1],
                      !.otMinutes1_5x = p[2], !.otHours1_5x = p[2]]
       ELSE IF b.dayType = "weekend" THEN
         LET p == SplitAt(WEEKEND_FIRST_TIER_MINUTES, cumulativeMinutesWorkedToday, remainingMinutes)
         IN [b EXCEPT !.otMinutes1x = p[1], !.otHours1x = p[1],
                      !.fixedOTMinutes = p[1], !.fixedOTHours = p[1],
                      !.otMinutes1_5x = p[2], !.otHours1_5x = p[2]]
       ELSE IF b.dayType = "public_holiday" THEN
         LET p == SplitAt(PUBLIC_HOLIDAY_FIRST_TIER_MINUTES, cumulativeMinutesWorkedToday, remainingMinutes)
         IN [b EXCEPT !.otMinutes2x = p[1], !.otHours2x = p[1],
                      !.otMinutes3x = p[2], !.otHours3x = p[2]]
       ELSE b

\* timeService.ts:188-257: the tier minutes and hours written for the day type.
Tiered(b, cumulativeMinutesWorkedToday) ==
    LET remainingMinutes == b.duration
    IN IF b.dayType = "weekday" THEN
         LET p == SplitAt(WEEKDAY_FIXED_OT_MINUTES, cumulativeMinutesWorkedToday, remainingMinutes)
         IN [b EXCEPT !.fixedOTMinutes = p[1], !.fixedOTHours = p[1],
                      !.otMinutes1_5x = p[2], !.otHours1_5x = p[2]]
       ELSE IF b.dayType = "weekend" THEN
         LET p == SplitAt(WEEKEND_FIRST_TIER_MINUTES, cumulativeMinutesWorkedToday, remainingMinutes)
         IN [b EXCEPT !.otMinutes1x = p[1], !.otHours1x = p[1],
                      !.otMinutes1_5x = p[2], !.otHours1_5x = p[2]]
       ELSE IF b.dayType = "public_holiday" THEN
         LET p == SplitAt(PUBLIC_HOLIDAY_FIRST_TIER_MINUTES, cumulativeMinutesWorkedToday, remainingMinutes)
         IN [b EXCEPT !.otMinutes2x = p[1], !.otHours2x = p[1],
                      !.otMinutes3x = p[2], !.otHours3x = p[2]]
       ELSE b

\* TierAmount with the tier's minutes priced as they are, not rounded to blocks.
TierAmount_Unrounded(minutes, rate) ==
    IF minutes > 0 THEN PriceOf(minutes, rate) ELSE 0

\* timeService.ts:260-282, one paid tier: zero unless the tier has minutes.
TierAmount(minutes, rate) ==
    IF minutes > 0
      THEN LET roundedMinutes == roundToBlocks(minutes)
           IN PriceOf(roundedMinutes, rate)
      ELSE 0

\* timeService.ts:259-291: amounts and totals.
\* Priced with the weekday first tier paid at 1.0x.
Priced_FixedTierPaid(b) ==
    LET a1 == TierAmount(b.otMinutes1x, RATE_1X)
        a15 == TierAmount(b.otMinutes1_5x, RATE_1_5X)
        a2 == TierAmount(b.otMinutes2x, RATE_2X)
        a3 == TierAmount(b.otMinutes3x, RATE_3X)
        totalOT == TierAmount(b.fixedOTMinutes, RATE_1X) + a1 + a15 + a2 + a3
    IN [b EXCEPT !.otAmount1x = a1, !.otAmount1_5x = a15,
                 !.otAmount2x = a2, !.otAmount3x = a3,
                 !.totalOTAmount = totalOT,
                 !.totalAmount = totalOT + b.mealAllowance]

\* Priced with the total left without the allowance.
Priced_TotalWithoutAllowance(b) ==
    LET a1 == TierAmount(b.otMinutes1x, RATE_1X)
        a15 == TierAmount(b.otMinutes1_5x, RATE_1_5X)
        a2 == TierAmount(b.otMinutes2x, RATE_2X)
        a3 == TierAmount(b.otMinutes3x, RATE_3X)
        totalOT == a1 + a15 + a2 + a3
    IN [b EXCEPT !.otAmount1x = a1, !.otAmount1_5x = a15,
                 !.otAmount2x = a2, !.otAmount3x = a3,
                 !.totalOTAmount = totalOT,
                 !.totalAmount = totalOT]

\* Priced with the allowance counted as overtime pay.
Priced_AllowanceInOT(b) ==
    LET a1 == TierAmount(b.otMinutes1x, RATE_1X)
        a15 == TierAmount(b.otMinutes1_5x, RATE_1_5X)
        a2 == TierAmount(b.otMinutes2x, RATE_2X)
        a3 == TierAmount(b.otMinutes3x, RATE_3X)
        totalOT == a1 + a15 + a2 + a3 + b.mealAllowance
    IN [b EXCEPT !.otAmount1x = a1, !.otAmount1_5x = a15,
                 !.otAmount2x = a2, !.otAmount3x = a3,
                 !.totalOTAmount = totalOT,
                 !.totalAmount = totalOT]

Priced(b) ==
    LET a1 == TierAmount(b.otMinutes1x, RATE_1X)
        a15 == TierAmount(b.otMinutes1_5x, RATE_1_5X)
        a2 == TierAmount(b.otMinutes2x, RATE_2X)
        a3 == TierAmount(b.otMinutes3x, RATE_3X)
        totalOT == a1 + a15 + a2 + a3
    IN [b EXCEPT !.otAmount1x = a1, !.otAmount1_5x = a15,
                 !.otAmount2x = a2, !.otAmount3x = a3,
                 !.totalOTAmount = totalOT,
                 !.totalAmount = totalOT + b.mealAllowance]

\* The older variant of the service, part_000:184-226: one tier split, the
\* session's own minutes against the threshold.
\* Legacy_SplitAt with a session longer than the threshold put whole into the overflow tier.
Legacy_SplitAt_WholeOverflow(threshold, remainingMinutes) ==
    IF remainingMinutes > threshold
      THEN <<0, remainingMinutes>>
      ELSE <<remainingMinutes, 0>>

Legacy_SplitAt(threshold, remainingMinutes) ==
    IF remainingMinutes > threshold
      THEN <<threshold, remainingMinutes - threshold>>
      ELSE <<remainingMinutes, 0>>

\* part_000:182-226: the tier minutes and hours of the older variant.
Legacy_Tiered(b) ==
    LET remainingMinutes == b.duration
    IN IF b.dayType = "weekday" THEN
         LET p == Legacy_SplitAt(WEEKDAY_FIXED_OT_MINUTES, remainingMinutes)
         IN [b EXCEPT !.fixedOTMinutes = p[1], !.fixedOTHours = p[1],
                      !.otMinutes1_5x = p[2], !.otHours1_5x = p[2]]
       ELSE IF b.dayType = "weekend" THEN
         LET p == Legacy_SplitAt(WEEKEND_FIRST_TIER_MINUTES, remainingMinutes)
         IN [b EXCEPT !.otMinutes1x = p[1], !.otHours1x = p[1],
                      !.otMinutes1_5x = p[2], !.otHours1_5x = p[2]]
       ELSE IF b.dayType = "public_holiday" THEN
         LET p == Legacy_SplitAt(PUBLIC_HOLIDAY_FIRST_TIER_MINUTES, remainingMinutes)
         IN [b EXCEPT !.otMinutes2x = p[1], !.otHours2x = p[1],
                      !.otMinutes3x = p[2], !.otHours3x = p[2]]
       ELSE b

\* part_000:144-262: the older, cumulative-agnostic calculateOvertime.
Legacy_calculateOvertime(clockIn, clockOut, isOutstationOvernight, isPublicHolidayOverride) ==
    LET totalMinutes == differenceInMinutes(clockOut, clockIn)
        dayType == getDayType(clockIn, isPublicHolidayOverride)
        breakdown == InitialBreakdown(totalMinutes, dayType, isOutstationOvernight)
    IN IF totalMinutes <= 0
         THEN [breakdown EXCEPT !.totalAmount = breakdown.mealAllowance]
         ELSE Priced(Legacy_Tiered(breakdown))

\* calculateOvertime without the early return for totalMinutes <= 0.
calculateOvertime_NoEarlyReturn(clockIn, clockOut, isOutstationOvernight, isPublicHolidayOverride, cumulativeMinutesWorkedToday) ==
    LET totalMinutes == differenceInMinutes(clockOut, clockIn)
        dayType == getDayType(clockIn, isPublicHolidayOverride)
        breakdown == InitialBreakdown(totalMinutes, dayType, isOutstationOvernight)
    IN Priced(Tiered(breakdown, cumulativeMinutesWorkedToday))

\* calculateOvertime classifying the day the session ends on.
calculateOvertime_DayOfClockOut(clockIn, clockOut, isOutstationOvernight, isPublicHolidayOverride, cumulativeMinutesWorkedToday) ==
    LET totalMinutes == differenceInMinutes(clockOut, clockIn)
        dayType == getDayType(clockOut, isPublicHolidayOverride)
        breakdown == InitialBreakdown(totalMinutes, dayType, isOutstationOvernight)
    IN IF totalMinutes <= 0
         THEN [breakdown EXCEPT !.totalAmount = breakdown.mealAllowance]
         ELSE Priced(Tiered(breakdown, cumulativeMinutesWorkedToday))

calculateOvertime(clockIn, clockOut, isOutstationOvernight, isPublicHolidayOverride, cumulativeMinutesWorkedToday) ==
    LET totalMinutes == differenceInMinutes(clockOut, clockIn)
        dayType == getDayType(clockIn, isPublicHolidayOverride)
        breakdown == InitialBreakdown(totalMinutes, dayType, isOutstationOvernight)
    IN IF totalMinutes <= 0
         THEN [breakdown EXCEPT !.totalAmount = breakdown.mealAllowance]
         ELSE Priced(Tiered(breakdown, cumulativeMinutesWorkedToday))

---------------------------------------------------------------------------
(* The holiday list, timeService.ts:44-62 *)

\* Every sequence over S of length at most n.
RECURSIVE SeqsUpTo(_, _)
SeqsUpTo(S, n) ==
    IF n = 0 THEN {<<>>}
    ELSE LET shorter == SeqsUpTo(S, n - 1)
         IN shorter \cup {Append(s, x) : s \in {t \in shorter : Len(t) = n - 1}, x \in S}

\* The dates that holiday lists are built from: a Thursday and a Saturday.
HolidayDates == {0, 2}
HolidayInputs == SeqsUpTo(HolidayDates, MaxHolidays)

\* The record of a list update: the function, its argument, and the dates the
\* list held before.
NoUpdate == [fn |-> "none"]
Updated(fn, holidays) == [fn |-> fn, holidays |-> holidays, before |-> Range(PUBLIC_HOLIDAYS)]

\* setPublicHolidays appending to the list instead of replacing it.
setPublicHolidays_Appending(holidays) ==
    /\ PUBLIC_HOLIDAYS' = PUBLIC_HOLIDAYS \o holidays
    /\ lastUpdate' = Updated("setPublicHolidays", holidays)
    /\ UNCHANGED <<call, result, history, storeVars>>

setPublicHolidays(holidays) ==
    /\ PUBLIC_HOLIDAYS' = holidays
    /\ lastUpdate' = Updated("setPublicHolidays", holidays)
    /\ UNCHANGED <<call, result, history, storeVars>>

addPublicHolidays(holidays) ==
    /\ PUBLIC_HOLIDAYS' = Dedup(PUBLIC_HOLIDAYS \o holidays)
    /\ lastUpdate' = Updated("addPublicHolidays", holidays)
    /\ UNCHANGED <<call, result, history, storeVars>>

getPublicHolidays == PUBLIC_HOLIDAYS

NoCall == [fn |-> "none"]
NoResult == [fn |-> "none"]
Returned(fn, value) == [fn |-> fn, value |-> value]

\* The history after calculateOvertime returned value for call k: that call
\* first, the one before it second, each with whether the holiday list held
\* the clock-in's day when it was made.
Remembered(k, value) ==
    LET entry == [call |-> k, value |-> value, listed |-> isPublicHoliday(k.clockIn)]
    IN IF history = <<>> THEN <<entry>> ELSE <<entry, history[1]>>

---------------------------------------------------------------------------
(* The work_logs table and the Dashboard clients *)

\* SQL NULL in a timestamp column, and "no row" in a client's activeLog.
Null == 0 - 1

\* The browsers the app runs in, and a sign-in of a different user on each.
Clients == {"c1", "c2"}
TwoUsers == [c \in Clients |-> IF c = "c1" THEN "userA" ELSE "userB"]
UserOf(c) == session[c]

\* Instants the clock starts at: Thursday 09:00 and Saturday 09:00.
StartInstants == {d * MsPerDay + 9 * 60 * MsPerMinute : d \in {0, 2}}

\* How far the clock moves between two steps: 4 h, 6 h 01 min.
ClockSteps == {240 * MsPerMinute, 361 * MsPerMinute}

\* supabase .eq('user_id', userId).is('clock_out', null)
OpenLogsOf(logs, userId) ==
    {i \in 1..Len(logs) : logs[i].user_id = userId /\ logs[i].clock_out = Null}

\* fetchActiveSession, timeService.ts:428-438: maybeSingle gives the row, null
\* when there is none, and an error when there are several.
fetchActiveSession(logs, userId) ==
    LET open == OpenLogsOf(logs, userId)
    IN IF open = {} THEN [error |-> FALSE, data |-> Null]
       ELSE IF Cardinality(open) = 1 THEN [error |-> FALSE, data |-> CHOOSE i \in open : TRUE]
       ELSE [error |-> TRUE, data |-> Null]

\* refreshData, Dashboard.tsx:41-59: activeLog is replaced unless a fetch threw.
refreshData(d, logs, userId, ok) ==
    LET active == fetchActiveSession(logs, userId)
    IN IF ok /\ ~active.error
         THEN [d EXCEPT !.activeLog = active.data]
         ELSE d

NoCalculation == [duration |-> Null]

\* A client with no handler in flight; the fields are the locals of performClockOut.
IdleHandler ==
    [ pc |-> "idle", logId |-> Null, clockIn |-> Null, isOutstationOvernight |-> FALSE,
      user_id |-> "", isPublicHoliday |-> FALSE, clockOut |-> Null, dayType |-> "",
      cumulativeMinutes |-> 0, calculation |-> NoCalculation, readFailed |-> FALSE ]

NewDashboard == [activeLog |-> Null, h |-> IdleHandler]

JsBool(b) == IF b THEN JsTrue ELSE JsFalse

\* An empty table, nobody clocked in, the clock at start.
StoreInit(start, signedIn) ==
    /\ now = start
    /\ work_logs = <<>>
    /\ audit = <<>>
    /\ dashboards = [c \in Clients |-> NewDashboard]
    /\ advances = 0
    /\ failures = 0
    /\ session = signedIn

\* Time passes.
Tick(step) ==
    /\ advances < MaxAdvances
    /\ now + step < (MaxDay + 1) * MsPerDay
    /\ now' = now + step
    /\ advances' = advances + 1
    /\ UNCHANGED <<PUBLIC_HOLIDAYS, engineVars, work_logs, audit, dashboards, failures, session>>

\* Whether one more store call may fail, and the count after a call that did.
MayFail(ok) == ok \/ failures < MaxFailures
Failed(oks) == failures + Cardinality({i \in 1..Len(oks) : ~oks[i]})

\* The page is loaded or reloaded: useEffect -> refreshData, Dashboard.tsx:61-63.
\* (A load whose fetch throws leaves activeLog as it was.)
Reload(c) ==
    /\ dashboards[c].h.pc = "idle"
    /\ dashboards' = [dashboards EXCEPT ![c] = refreshData(@, work_logs, UserOf(c), TRUE)]
    /\ UNCHANGED <<PUBLIC_HOLIDAYS, engineVars, now, work_logs, audit, advances, failures, session>>

\* performClockIn, timeService.ts:305-331: the row inserted.
NewWorkLog(userId, clockInTime, publicHoliday) ==
    [ user_id |-> userId,
      clock_in |-> clockInTime,
      clock_out |-> Null,
      duration_minutes |-> 0,
      overtime_amount |-> 0,
      is_public_holiday |-> publicHoliday,
      is_outstation |-> FALSE,
      day_type |-> getDayType(clockInTime, JsBool(publicHoliday)) ]

\* handleClockIn, Dashboard.tsx:105-125, with performClockIn, timeService.ts:299-338:
\* the CLOCK IN button is shown when the client has no activeLog; the insert
\* succeeds (ok) or throws.
handleClockIn(c, publicHoliday, ok, refreshOk) ==
    /\ dashboards[c].h.pc = "idle"
    /\ dashboards[c].activeLog = Null
    /\ Len(work_logs) < MaxLogs
    /\ Failed(<<ok, ~ok \/ refreshOk>>) <= MaxFailures
    /\ failures' = Failed(<<ok, ~ok \/ refreshOk>>)
    /\ IF ok
         THEN LET logs == Append(work_logs, NewWorkLog(UserOf(c), now, publicHoliday))
              IN /\ work_logs' = logs
                 /\ audit' = Append(audit,
                        [ calculation |-> NoCalculation,
                          cumulativeMinutes |-> 0,
                          overlapped |-> OpenLogsOf(work_logs, UserOf(c)) # {},
                          readFailed |-> FALSE,
                          updates |-> 0 ])
                 /\ dashboards' = [dashboards EXCEPT ![c] =
                        refreshData(@, logs, UserOf(c), refreshOk)]
         ELSE UNCHANGED <<work_logs, audit, dashboards>>
    /\ UNCHANGED <<PUBLIC_HOLIDAYS, engineVars, now, advances, session>>

\* timeService.ts:374-388: the rows the same-day query returns.
SameDayLogs(logs, userId, logId, clockIn) ==
    LET dateStr == format(clockIn)
        dayStart == dayStartOf(dateStr)
        dayEnd == dayEndOf(dateStr)
    IN {i \in 1..Len(logs) :
          /\ logs[i].user_id = userId
          /\ logs[i].clock_out # Null
          /\ i # logId
          /\ logs[i].clock_in >= dayStart
          /\ logs[i].clock_in <= dayEnd}

\* sameDayLogs.reduce((sum, log) => sum + (log.duration_minutes || 0), 0)
RECURSIVE SumDurations(_, _)
SumDurations(logs, ids) ==
    IF ids = {} THEN 0
    ELSE LET i == CHOOSE x \in ids : TRUE
         IN logs[i].duration_minutes + SumDurations(logs, ids \ {i})

\* timeService.ts:396: the pricing call of performClockOut.
ClockOutCalculation(h, cumulativeMinutes) ==
    calculateOvertime(h.clockIn, h.clockOut, h.isOutstationOvernight,
                      JsBool(h.isPublicHoliday), cumulativeMinutes)

\* ClockOutStart with the session priced before the same-day query is answered.
ClockOutStart_PricedBeforeQuery(c, isOutstation, ok) ==
    LET logId == dashboards[c].activeLog
        row == work_logs[logId]
        publicHoliday == IF ok THEN row.is_public_holiday ELSE FALSE
        h == [IdleHandler EXCEPT
                !.logId = logId,
                !.clockIn = row.clock_in,
                !.isOutstationOvernight = isOutstation,
                !.user_id = IF ok THEN row.user_id ELSE "",
                !.isPublicHoliday = publicHoliday,
                !.clockOut = now,
                !.dayType = getDayType(row.clock_in, JsBool(publicHoliday)),
                !.readFailed = ~ok]
    IN /\ dashboards[c].h.pc = "idle"
       /\ dashboards[c].activeLog # Null
       /\ MayFail(ok)
       /\ failures' = Failed(<<ok>>)
       /\ dashboards' = [dashboards EXCEPT ![c].h =
            [h EXCEPT !.pc = IF ok THEN "aggregating" ELSE "updating",
                      !.calculation = ClockOutCalculation(h, 0)]]
       /\ UNCHANGED <<PUBLIC_HOLIDAYS, engineVars, now, work_logs, audit, advances, session>>

\* handleClockOut, Dashboard.tsx:127-139, and performClockOut, timeService.ts:343-378
\* (and 396 when the row was not read: no user_id, so no same-day query).  The
\* CLOCK OUT button is shown when the client has an activeLog; the fetch of the
\* row answers (ok) or fails, and clockOut is read after it.
ClockOutStart(c, isOutstation, ok) ==
    LET logId == dashboards[c].activeLog
        row == work_logs[logId]
        publicHoliday == IF ok THEN row.is_public_holiday ELSE FALSE
        h == [IdleHandler EXCEPT
                !.logId = logId,
                !.clockIn = row.clock_in,
                !.isOutstationOvernight = isOutstation,
                !.user_id = IF ok THEN row.user_id ELSE "",
                !.isPublicHoliday = publicHoliday,
                !.clockOut = now,
                !.dayType = getDayType(row.clock_in, JsBool(publicHoliday)),
                !.readFailed = ~ok]
    IN /\ dashboards[c].h.pc = "idle"
       /\ dashboards[c].activeLog # Null
       /\ MayFail(ok)
       /\ failures' = Failed(<<ok>>)
       /\ dashboards' = [dashboards EXCEPT ![c].h =
            IF ok
              THEN [h EXCEPT !.pc = "aggregating"]
              ELSE [h EXCEPT !.pc = "updating",
                             !.calculation = ClockOutCalculation(h, 0)]]
       /\ UNCHANGED <<PUBLIC_HOLIDAYS, engineVars, now, work_logs, audit, advances, session>>

\* performClockOut, timeService.ts:379-396: the same-day query answers (ok) or
\* fails, and the session is priced.
ClockOutAggregated(c, ok) ==
    LET h == dashboards[c].h
        sameDayLogs == SameDayLogs(work_logs, h.user_id, h.logId, h.clockIn)
        cumulativeMinutes == IF ok THEN SumDurations(work_logs, sameDayLogs) ELSE 0
    IN /\ h.pc = "aggregating"
       /\ MayFail(ok)
       /\ failures' = Failed(<<ok>>)
       /\ dashboards' = [dashboards EXCEPT ![c].h =
            [h EXCEPT !.pc = "updating",
                      !.readFailed = ~ok,
                      !.cumulativeMinutes = cumulativeMinutes,
                      !.calculation = ClockOutCalculation(h, cumulativeMinutes)]]
       /\ UNCHANGED <<PUBLIC_HOLIDAYS, engineVars, now, work_logs, audit, advances, session>>

\* ClockOutUpdated writing the grand total into overtime_amount.
ClockOutUpdated_StoresTotalAmount(c, ok, refreshOk) ==
    LET h == dashboards[c].h
        logs == [work_logs EXCEPT ![h.logId] =
                    [@ EXCEPT !.clock_out = h.clockOut,
                              !.duration_minutes = h.calculation.duration,
                              !.overtime_amount = h.calculation.totalAmount,
                              !.is_outstation = h.isOutstationOvernight,
                              !.day_type = h.dayType]]
    IN /\ h.pc = "updating"
       /\ Failed(<<ok, ~ok \/ refreshOk>>) <= MaxFailures
       /\ failures' = Failed(<<ok, ~ok \/ refreshOk>>)
       /\ IF ok
            THEN /\ work_logs' = logs
                 /\ audit' = [audit EXCEPT ![h.logId] =
                       [@ EXCEPT !.calculation = h.calculation,
                                 !.cumulativeMinutes = h.cumulativeMinutes,
                                 !.readFailed = h.readFailed,
                                 !.updates = IF @ < 2 THEN @ + 1 ELSE @]]
                 /\ dashboards' = [dashboards EXCEPT ![c] =
                       refreshData([@ EXCEPT !.h = IdleHandler], logs, UserOf(c), refreshOk)]
            ELSE /\ dashboards' = [dashboards EXCEPT ![c].h = IdleHandler]
                 /\ UNCHANGED <<work_logs, audit>>
       /\ UNCHANGED <<PUBLIC_HOLIDAYS, engineVars, now, advances, session>>

\* performClockOut, timeService.ts:404-423, and the rest of handleClockOut,
\* Dashboard.tsx:139-148: the update is applied (ok) or returns an error, which
\* performClockOut throws.
ClockOutUpdated(c, ok, refreshOk) ==
    LET h == dashboards[c].h
        logs == [work_logs EXCEPT ![h.logId] =
                    [@ EXCEPT !.clock_out = h.clockOut,
                              !.duration_minutes = h.calculation.duration,
                              !.overtime_amount = h.calculation.totalOTAmount,
                              !.is_outstation = h.isOutstationOvernight,
                              !.day_type = h.dayType]]
    IN /\ h.pc = "updating"
       /\ Failed(<<ok, ~ok \/ refreshOk>>) <= MaxFailures
       /\ failures' = Failed(<<ok, ~ok \/ refreshOk>>)
       /\ IF ok
            THEN /\ work_logs' = logs
                 /\ audit' = [audit EXCEPT ![h.logId] =
                       [@ EXCEPT !.calculation = h.calculation,
                                 !.cumulativeMinutes = h.cumulativeMinutes,
                                 !.readFailed = h.readFailed,
                                 !.updates = IF @ < 2 THEN @ + 1 ELSE @]]
                 /\ dashboards' = [dashboards EXCEPT ![c] =
                       refreshData([@ EXCEPT !.h = IdleHandler], logs, UserOf(c), refreshOk)]
            ELSE /\ dashboards' = [dashboards EXCEPT ![c].h = IdleHandler]
                 /\ UNCHANGED <<work_logs, audit>>
       /\ UNCHANGED <<PUBLIC_HOLIDAYS, engineVars, now, advances, session>>

Init ==
    /\ PUBLIC_HOLIDAYS = <<>>
    /\ call = NoCall
    /\ result = NoResult
    /\ history = <<>>
    /\ lastUpdate = NoUpdate
    /\ \E start \in StartInstants : StoreInit(start, TwoUsers)

Next ==
    \/ \E step \in ClockSteps : Tick(step)
    \/ \E c \in Clients : Reload(c)
    \/ \E c \in Clients, publicHoliday \in BOOLEAN, ok \in BOOLEAN, refreshOk \in BOOLEAN :
          handleClockIn(c, publicHoliday, ok, refreshOk)
    \/ \E c \in Clients, isOutstation \in BOOLEAN, ok \in BOOLEAN :
          ClockOutStart(c, isOutstation, ok)
    \/ \E c \in Clients, ok \in BOOLEAN : ClockOutAggregated(c, ok)
    \/ \E c \in Clients, ok \in BOOLEAN, refreshOk \in BOOLEAN : ClockOutUpdated(c, ok, refreshOk)

Spec == Init /\ [][Next]_vars

\* The same workflow with every store call answered.
ReliableInit ==
    /\ PUBLIC_HOLIDAYS = <<>>
    /\ call = NoCall
    /\ result = NoResult
    /\ history = <<>>
    /\ lastUpdate = NoUpdate
    /\ \E start \in StartInstants :
          /\ now = start
          /\ work_logs = <<>>
          /\ audit = <<>>
          /\ dashboards = [c \in Clients |-> NewDashboard]
          /\ advances = 0
          /\ failures = MaxFailures
          /\ session = TwoUsers

SpecReliable == ReliableInit /\ [][Next]_vars

\* One user signed in on both clients, shortly before midnight, every store
\* call answered.  The clock moves by 400 ms or by four hours.
SameUser == [c \in Clients |-> "userA"]
MidnightSteps == {400, 240 * MsPerMinute}

MidnightInit ==
    /\ PUBLIC_HOLIDAYS = <<>>
    /\ call = NoCall
    /\ result = NoResult
    /\ history = <<>>
    /\ lastUpdate = NoUpdate
    /\ now = MsPerDay - 800
    /\ work_logs = <<>>
    /\ audit = <<>>
    /\ dashboards = [c \in Clients |-> NewDashboard]
    /\ advances = 0
    /\ failures = MaxFailures
    /\ session = SameUser

MidnightNext ==
    \/ \E step \in MidnightSteps : Tick(step)
    \/ \E c \in Clients : Reload(c)
    \/ \E c \in Clients, publicHoliday \in BOOLEAN : handleClockIn(c, publicHoliday, TRUE, TRUE)
    \/ \E c \in Clients, isOutstation \in BOOLEAN : ClockOutStart(c, isOutstation, TRUE)
    \/ \E c \in Clients : ClockOutAggregated(c, TRUE)
    \/ \E c \in Clients : ClockOutUpdated(c, TRUE, TRUE)

SpecMidnight == MidnightInit /\ [][MidnightNext]_vars

---------------------------------------------------------------------------
(* Engine calls with inputs drawn from bounded sets *)

\* Minutes are drawn at, just below and just above a boundary.
Near(m, k) == m - k \in {-1, 0, 1}

Thresholds ==
    {WEEKDAY_FIXED_OT_MINUTES, WEEKEND_FIRST_TIER_MINUTES, PUBLIC_HOLIDAY_FIRST_TIER_MINUTES}

\* Session lengths in minutes: around every block boundary, plus the
\* lengths of the documented scenarios (160, 660 and 700 minutes).
SessionMinutes ==
    {m \in 0..MaxMinutes :
        \/ \E k \in 0..(MaxMinutes \div BLOCK_MINUTES) : Near(m, k * BLOCK_MINUTES)
        \/ m \in {160, 700}}

\* Minutes already worked: around zero, 300 and every threshold, and past the last.
CumulativeMinutes ==
    {m \in 0..MaxMinutes : \E k \in Thresholds \cup {0, 300, MaxMinutes} : Near(m, k)}

\* Times of day a session starts at: midnight, 09:00, and the last half second.
TimesOfDay == {0, 9 * 60 * MsPerMinute, MsPerDay - 500}

ClockIns == {d * MsPerDay + t : d \in 0..MaxDay, t \in TimesOfDay}

\* Clock-out minus clock-in, in ms: whole minutes, whole minutes plus 59.999 s,
\* and clock-outs up to two blocks before the clock-in.
Elapsed ==
    {m * MsPerMinute : m \in SessionMinutes}
    \cup {m * MsPerMinute + (MsPerMinute - 1) : m \in {n \in SessionMinutes : n <= BLOCK_MINUTES}}
    \cup {-(m * MsPerMinute) - s : m \in {n \in SessionMinutes : n <= 2 * BLOCK_MINUTES},
                                    s \in {0, 1, MsPerMinute - 1}}

Overrides == {JsTrue, JsFalse, Undefined}

\* Clock-ins of calculateOvertime calls: 09:00 and the last half second of each day.
CalcClockIns == {d * MsPerDay + t : d \in 0..MaxDay, t \in {9 * 60 * MsPerMinute, MsPerDay - 500}}

CalculateOvertimeCalls ==
    { [fn |-> "calculateOvertime", clockIn |-> clockIn, clockOut |-> clockIn + elapsed,
       isOutstationOvernight |-> isOutstationOvernight,
       isPublicHolidayOverride |-> isPublicHolidayOverride,
       cumulativeMinutesWorkedToday |-> cumulative] :
         clockIn \in CalcClockIns, elapsed \in Elapsed, isOutstationOvernight \in BOOLEAN,
         isPublicHolidayOverride \in Overrides, cumulative \in CumulativeMinutes }

GetDayTypeCalls ==
    { [fn |-> "getDayType", date |-> date, isPublicHolidayOverride |-> isPublicHolidayOverride] :
         date \in ClockIns, isPublicHolidayOverride \in Overrides }

RoundToBlocksCalls == { [fn |-> "roundToBlocks", minutes |-> minutes] : minutes \in 0..MaxMinutes }

CallCalculateOvertime ==
    /\ call.fn = "calculateOvertime"
    /\ result = NoResult
    /\ result' = Returned("calculateOvertime",
                          calculateOvertime(call.clockIn, call.clockOut,
                                            call.isOutstationOvernight,
                                            call.isPublicHolidayOverride,
                                            call.cumulativeMinutesWorkedToday))
    /\ history' = Remembered(call, result'.value)
    /\ UNCHANGED <<PUBLIC_HOLIDAYS, call, lastUpdate, storeVars>>

CallGetDayType ==
    /\ call.fn = "getDayType"
    /\ result = NoResult
    /\ result' = Returned("getDayType", getDayType(call.date, call.isPublicHolidayOverride))
    /\ UNCHANGED <<PUBLIC_HOLIDAYS, call, history, lastUpdate, storeVars>>

CallRoundToBlocks ==
    /\ call.fn = "roundToBlocks"
    /\ result = NoResult
    /\ result' = Returned("roundToBlocks", roundToBlocks(call.minutes))
    /\ UNCHANGED <<PUBLIC_HOLIDAYS, call, history, lastUpdate, storeVars>>

\* Holiday lists for one call, which reads the list through includes of one
\* date only: no holiday, or one of the dates.
EngineHolidays == {<<>>} \cup {<<d>> : d \in HolidayDates}

\* The holiday list is a list setPublicHolidays can have installed; the call
\* is any call with arguments from the sets above, not yet made.
EngineInit ==
    /\ PUBLIC_HOLIDAYS \in EngineHolidays
    /\ call \in CalculateOvertimeCalls \cup GetDayTypeCalls \cup RoundToBlocksCalls
    /\ result = NoResult
    /\ history = <<>>
    /\ lastUpdate = NoUpdate
    /\ StoreInit(0, TwoUsers)

EngineNext ==
    \/ CallCalculateOvertime
    \/ CallGetDayType
    \/ CallRoundToBlocks

SpecEngine == EngineInit /\ [][EngineNext]_vars

---------------------------------------------------------------------------
(* The module in use: calls of its exported functions, one after another *)

\* The calls made: a session of 6 h 30 min after 5 h worked, clocked in on
\* Thursday or Saturday at 09:00, and on Thursday with the override; the
\* classification of Thursday 09:00; a read of the holiday list.
ModuleClockIns == {d * MsPerDay + 9 * 60 * MsPerMinute : d \in HolidayDates}

ModuleCalls ==
    { [fn |-> "calculateOvertime", clockIn |-> clockIn, clockOut |-> clockIn + 390 * MsPerMinute,
       isOutstationOvernight |-> TRUE,
       isPublicHolidayOverride |-> isPublicHolidayOverride,
       cumulativeMinutesWorkedToday |-> 300] :
         clockIn \in ModuleClockIns, isPublicHolidayOverride \in {Undefined} }
    \cup { [fn |-> "calculateOvertime", clockIn |-> 9 * 60 * MsPerMinute,
            clockOut |-> (9 * 60 + 390) * MsPerMinute,
            isOutstationOvernight |-> TRUE,
            isPublicHolidayOverride |-> JsTrue,
            cumulativeMinutesWorkedToday |-> 300] }
    \cup { [fn |-> "getDayType", date |-> 9 * 60 * MsPerMinute,
            isPublicHolidayOverride |-> Undefined] }
    \cup { [fn |-> "getPublicHolidays"] }

\* The caller makes its next call; the call before has returned.
Invoke(k) ==
    /\ call = NoCall \/ result # NoResult
    /\ call' = k
    /\ result' = NoResult
    /\ UNCHANGED <<PUBLIC_HOLIDAYS, history, lastUpdate, storeVars>>

CallGetPublicHolidays ==
    /\ call.fn = "getPublicHolidays"
    /\ result = NoResult
    /\ result' = Returned("getPublicHolidays", getPublicHolidays)
    /\ UNCHANGED <<PUBLIC_HOLIDAYS, call, history, lastUpdate, storeVars>>

ModuleInit ==
    /\ PUBLIC_HOLIDAYS = <<>>
    /\ call = NoCall
    /\ result = NoResult
    /\ history = <<>>
    /\ lastUpdate = NoUpdate
    /\ StoreInit(0, TwoUsers)

ModuleNext ==
    \/ \E k \in ModuleCalls : Invoke(k)
    \/ CallCalculateOvertime
    \/ CallGetDayType
    \/ CallGetPublicHolidays
    \/ \E holidays \in HolidayInputs : setPublicHolidays(holidays)
    \/ \E holidays \in HolidayInputs : addPublicHolidays(holidays)

SpecModule == ModuleInit /\ [][ModuleNext]_vars

---------------------------------------------------------------------------
(* A day's work priced as several consecutive sessions and as one session *)

\* Session lengths in minutes: around a block, around the thresholds, and
\* lengths that fill up to them.
SplitMinutes ==
    {m \in 0..MaxMinutes :
        \/ \E k \in Thresholds \cup {0, BLOCK_MINUTES} : Near(m, k)
        \/ m \in {180, 240, 330}}

\* The day's sessions: up to MaxSessions lengths, MaxMinutes in all at most.
RECURSIVE SumSeq(_)
SumSeq(q) == IF q = <<>> THEN 0 ELSE Head(q) + SumSeq(Tail(q))

SplitSessions ==
    {q \in UNION {[1..n -> SplitMinutes] : n \in 1..MaxSessions} : SumSeq(q) <= MaxMinutes}

\* The day starts at 06:00 on Thursday or on Saturday, or on Thursday with the
\* public-holiday override.
SplitDays ==
    { [clockIn |-> d * MsPerDay + 6 * 60 * MsPerMinute, isPublicHolidayOverride |-> o] :
         d \in {0, 2}, o \in {Undefined} }
    \cup { [clockIn |-> 6 * 60 * MsPerMinute, isPublicHolidayOverride |-> JsTrue] }

SplitCalls ==
    { [fn |-> "splitDay", clockIn |-> day.clockIn,
       isPublicHolidayOverride |-> day.isPublicHolidayOverride, sessions |-> q] :
         day \in SplitDays, q \in SplitSessions }

\* Nothing priced yet: no session, no minutes worked, no pay, no single session.
NoneSplit == [priced |-> 0, cumulativeMinutes |-> 0, sessionsOTAmount |-> 0, singleOTAmount |-> Null]

SplitProgress == IF result = NoResult THEN NoneSplit ELSE result.value

\* The next session of the day is priced: it starts where the one before
\* ended, and the cumulative minutes passed are the durations of the sessions
\* before it (timeService.ts:390-396).
PriceSession ==
    LET p == SplitProgress
        n == p.priced + 1
        clockIn == call.clockIn + p.cumulativeMinutes * MsPerMinute
        clockOut == clockIn + call.sessions[n] * MsPerMinute
        calculation == calculateOvertime(clockIn, clockOut, FALSE, call.isPublicHolidayOverride,
                                         p.cumulativeMinutes)
    IN /\ call.fn = "splitDay"
       /\ p.priced < Len(call.sessions)
       /\ result' = Returned("splitDay",
             [p EXCEPT !.priced = n,
                       !.cumulativeMinutes = @ + calculation.duration,
                       !.sessionsOTAmount = @ + calculation.totalOTAmount])
       /\ UNCHANGED <<PUBLIC_HOLIDAYS, call, history, lastUpdate, storeVars>>

\* The same minutes priced as one session from the start of the day, with no
\* minutes worked before.
PriceWhole ==
    LET p == SplitProgress
        clockOut == call.clockIn + SumSeq(call.sessions) * MsPerMinute
        calculation == calculateOvertime(call.clockIn, clockOut, FALSE,
                                         call.isPublicHolidayOverride, 0)
    IN /\ call.fn = "splitDay"
       /\ p.singleOTAmount = Null
       /\ result' = Returned("splitDay", [p EXCEPT !.singleOTAmount = calculation.totalOTAmount])
       /\ UNCHANGED <<PUBLIC_HOLIDAYS, call, history, lastUpdate, storeVars>>

SplitInit ==
    /\ PUBLIC_HOLIDAYS = <<>>
    /\ call \in SplitCalls
    /\ result = NoResult
    /\ history = <<>>
    /\ lastUpdate = NoUpdate
    /\ StoreInit(0, TwoUsers)

SplitNext ==
    \/ PriceSession
    \/ PriceWhole

SpecSplit == SplitInit /\ [][SplitNext]_vars

---------------------------------------------------------------------------
(* The Dashboard's controls: errorMsg, actionLoading and the outstation    *)
(* checkbox around handleClockIn and handleClockOut, Dashboard.tsx:24-148  *)

\* errorMsg: null, or the message set by a catch block.
NoError == "null"
LoadError == "Failed to load data."
ClockInError == "Failed to clock in"
ClockOutError == "Failed to clock out"

\* What the client did last and, for a clock-out, what it was pressed with:
\* the log, the outstation choice and the row as it was then.
NoAttempt == [event |-> "mounted", logId |-> Null, isOutstation |-> FALSE, row |-> NewWorkLog("", 0, FALSE)]

\* Dashboard.tsx:24-38: the state of a component just mounted.
MountedDashboard ==
    [ activeLog |-> Null, h |-> IdleHandler, errorMsg |-> NoError, actionLoading |-> FALSE,
      isOutstation |-> FALSE, attempt |-> NoAttempt ]

\* refreshData, Dashboard.tsx:41-59, with its catch block.
LoadData(d, logs, userId, ok) ==
    IF ok /\ ~fetchActiveSession(logs, userId).error
      THEN refreshData(d, logs, userId, ok)
      ELSE [d EXCEPT !.errorMsg = LoadError]

\* The page is opened or reloaded: a new component, then useEffect -> refreshData.
Mount(c, ok) ==
    /\ dashboards[c].h.pc = "idle"
    /\ MayFail(ok)
    /\ failures' = Failed(<<ok>>)
    /\ dashboards' = [dashboards EXCEPT ![c] = LoadData(MountedDashboard, work_logs, UserOf(c), ok)]
    /\ UNCHANGED <<PUBLIC_HOLIDAYS, engineVars, now, work_logs, audit, advances, session>>

\* Dashboard.tsx:272: the outstation checkbox, shown with an active log and
\* disabled while an action runs.
setIsOutstation(c, checked) ==
    /\ dashboards[c].h.pc = "idle"
    /\ dashboards[c].activeLog # Null
    /\ ~dashboards[c].actionLoading
    /\ checked # dashboards[c].isOutstation
    /\ dashboards' = [dashboards EXCEPT ![c].isOutstation = checked,
                                        ![c].attempt = [NoAttempt EXCEPT !.event = "toggled"]]
    /\ UNCHANGED <<PUBLIC_HOLIDAYS, engineVars, now, work_logs, audit, advances, failures, session>>

\* handleClockIn, Dashboard.tsx:105-125, from press to finally: the location
\* lookup or the insert may throw.
handleClockInWithControls(c, publicHoliday, locationOk, ok, refreshOk) ==
    LET d == dashboards[c]
        inserted == locationOk /\ ok
        logs == Append(work_logs, NewWorkLog(UserOf(c), now, publicHoliday))
        cleared == [d EXCEPT !.errorMsg = NoError, !.attempt = [NoAttempt EXCEPT !.event = "clockIn"]]
    IN /\ d.h.pc = "idle"
       /\ d.activeLog = Null
       /\ ~d.actionLoading
       /\ Len(work_logs) < MaxLogs
       /\ Failed(<<~locationOk \/ ok, ~inserted \/ refreshOk>>) <= MaxFailures
       /\ failures' = Failed(<<~locationOk \/ ok, ~inserted \/ refreshOk>>)
       /\ IF inserted
            THEN /\ work_logs' = logs
                 /\ audit' = Append(audit,
                        [ calculation |-> NoCalculation,
                          cumulativeMinutes |-> 0,
                          overlapped |-> OpenLogsOf(work_logs, UserOf(c)) # {},
                          readFailed |-> FALSE,
                          updates |-> 0 ])
                 /\ dashboards' = [dashboards EXCEPT ![c] = LoadData(cleared, logs, UserOf(c), refreshOk)]
            ELSE /\ dashboards' = [dashboards EXCEPT ![c] = [cleared EXCEPT !.errorMsg = ClockInError]]
                 /\ UNCHANGED <<work_logs, audit>>
       /\ UNCHANGED <<PUBLIC_HOLIDAYS, engineVars, now, advances, session>>

\* handleClockOut, Dashboard.tsx:127-131: CLOCK OUT is pressed.
handleClockOut(c) ==
    LET d == dashboards[c]
    IN /\ d.h.pc = "idle"
       /\ d.activeLog # Null
       /\ ~d.actionLoading
       /\ dashboards' = [dashboards EXCEPT ![c] =
             [d EXCEPT !.actionLoading = TRUE,
                       !.errorMsg = NoError,
                       !.h = [IdleHandler EXCEPT !.pc = "locating", !.logId = d.activeLog],
                       !.attempt = [event |-> "pending", logId |-> d.activeLog,
                                    isOutstation |-> d.isOutstation,
                                    row |-> work_logs[d.activeLog]]]]
       /\ UNCHANGED <<PUBLIC_HOLIDAYS, engineVars, now, work_logs, audit, advances, failures, session>>

\* Dashboard.tsx:133-138 and performClockOut, timeService.ts:343-402: the
\* location lookup rejects (catch, finally), or performClockOut reads the row
\* and the same-day logs and prices the session.
handleClockOutLocated(c, locationOk, readOk, sameDayOk) ==
    LET d == dashboards[c]
        logId == d.h.logId
        row == work_logs[logId]
        publicHoliday == IF readOk THEN row.is_public_holiday ELSE FALSE
        sameDayLogs == SameDayLogs(work_logs, row.user_id, logId, row.clock_in)
        cumulativeMinutes == IF readOk /\ sameDayOk THEN SumDurations(work_logs, sameDayLogs) ELSE 0
        h == [d.h EXCEPT
                !.clockIn = row.clock_in,
                !.isOutstationOvernight = d.isOutstation,
                !.user_id = IF readOk THEN row.user_id ELSE "",
                !.isPublicHoliday = publicHoliday,
                !.clockOut = now,
                !.dayType = getDayType(row.clock_in, JsBool(publicHoliday)),
                !.cumulativeMinutes = cumulativeMinutes,
                !.readFailed = ~(readOk /\ sameDayOk)]
    IN /\ d.h.pc = "locating"
       /\ Failed(<<~locationOk \/ readOk, ~locationOk \/ ~readOk \/ sameDayOk>>) <= MaxFailures
       /\ failures' = Failed(<<~locationOk \/ readOk, ~locationOk \/ ~readOk \/ sameDayOk>>)
       /\ dashboards' = [dashboards EXCEPT ![c] =
            IF locationOk
              THEN [d EXCEPT !.h = [h EXCEPT !.pc = "updating",
                                             !.calculation = ClockOutCalculation(h, cumulativeMinutes)]]
              ELSE [d EXCEPT !.h = IdleHandler,
                             !.errorMsg = ClockOutError,
                             !.actionLoading = FALSE,
                             !.attempt.event = "failed"]]
       /\ UNCHANGED <<PUBLIC_HOLIDAYS, engineVars, now, work_logs, audit, advances, session>>

\* handleClockOutUpdated with the outstation choice reset before the update
\* is answered.
handleClockOutUpdated_ResetFirst(c, ok, refreshOk) ==
    LET d == dashboards[c]
        h == d.h
        logs == [work_logs EXCEPT ![h.logId] =
                    [@ EXCEPT !.clock_out = h.clockOut,
                              !.duration_minutes = h.calculation.duration,
                              !.overtime_amount = h.calculation.totalOTAmount,
                              !.is_outstation = h.isOutstationOvernight,
                              !.day_type = h.dayType]]
        done == [d EXCEPT !.h = IdleHandler, !.isOutstation = FALSE, !.actionLoading = FALSE]
    IN /\ h.pc = "updating"
       /\ Failed(<<ok, ~ok \/ refreshOk>>) <= MaxFailures
       /\ failures' = Failed(<<ok, ~ok \/ refreshOk>>)
       /\ IF ok
            THEN /\ work_logs' = logs
                 /\ audit' = [audit EXCEPT ![h.logId] =
                       [@ EXCEPT !.calculation = h.calculation,
                                 !.cumulativeMinutes = h.cumulativeMinutes,
                                 !.readFailed = h.readFailed,
                                 !.updates = IF @ < 2 THEN @ + 1 ELSE @]]
                 /\ dashboards' = [dashboards EXCEPT ![c] =
                       LoadData([done EXCEPT !.attempt.event = "succeeded"], logs, UserOf(c), refreshOk)]
            ELSE /\ dashboards' = [dashboards EXCEPT ![c] =
                       [done EXCEPT !.errorMsg = ClockOutError, !.attempt.event = "failed"]]
                 /\ UNCHANGED <<work_logs, audit>>
       /\ UNCHANGED <<PUBLIC_HOLIDAYS, engineVars, now, advances, session>>

\* performClockOut, timeService.ts:404-423, and Dashboard.tsx:139-148: the
\* update is applied, the outstation choice reset and the data refreshed; or
\* the update returns an error, performClockOut throws and the catch block
\* sets the message.  finally resets actionLoading.
handleClockOutUpdated(c, ok, refreshOk) ==
    LET d == dashboards[c]
        h == d.h
        logs == [work_logs EXCEPT ![h.logId] =
                    [@ EXCEPT !.clock_out = h.clockOut,
                              !.duration_minutes = h.calculation.duration,
                              !.overtime_amount = h.calculation.totalOTAmount,
                              !.is_outstation = h.isOutstationOvernight,
                              !.day_type = h.dayType]]
        done == [d EXCEPT !.h = IdleHandler, !.actionLoading = FALSE]
    IN /\ h.pc = "updating"
       /\ Failed(<<ok, ~ok \/ refreshOk>>) <= MaxFailures
       /\ failures' = Failed(<<ok, ~ok \/ refreshOk>>)
       /\ IF ok
            THEN /\ work_logs' = logs
                 /\ audit' = [audit EXCEPT ![h.logId] =
                       [@ EXCEPT !.calculation = h.calculation,
                                 !.cumulativeMinutes = h.cumulativeMinutes,
                                 !.readFailed = h.readFailed,
                                 !.updates = IF @ < 2 THEN @ + 1 ELSE @]]
                 /\ dashboards' = [dashboards EXCEPT ![c] =
                       LoadData([done EXCEPT !.isOutstation = FALSE, !.attempt.event = "succeeded"],
                                logs, UserOf(c), refreshOk)]
            ELSE /\ dashboards' = [dashboards EXCEPT ![c] =
                       [done EXCEPT !.errorMsg = ClockOutError, !.attempt.event = "failed"]]
                 /\ UNCHANGED <<work_logs, audit>>
       /\ UNCHANGED <<PUBLIC_HOLIDAYS, engineVars, now, advances, session>>

ControlsInit ==
    /\ PUBLIC_HOLIDAYS = <<>>
    /\ call = NoCall
    /\ result = NoResult
    /\ history = <<>>
    /\ lastUpdate = NoUpdate
    /\ \E start \in StartInstants :
          /\ now = start
          /\ work_logs = <<>>
          /\ audit = <<>>
          /\ dashboards = [c \in Clients |-> MountedDashboard]
          /\ advances = 0
          /\ failures = 0
          /\ session = TwoUsers

\* The browser the user works in; the other client's page stays as mounted.
ControlsClients == {"c1"}

ControlsNext ==
    \/ \E step \in ClockSteps : Tick(step)
    \/ \E c \in ControlsClients, ok \in BOOLEAN : Mount(c, ok)
    \/ \E c \in ControlsClients, checked \in BOOLEAN : setIsOutstation(c, checked)
    \/ \E c \in ControlsClients, publicHoliday \in BOOLEAN, locationOk \in BOOLEAN, ok \in BOOLEAN, refreshOk \in BOOLEAN :
          handleClockInWithControls(c, publicHoliday, locationOk, ok, refreshOk)
    \/ \E c \in ControlsClients : handleClockOut(c)
    \/ \E c \in ControlsClients, locationOk \in BOOLEAN, readOk \in BOOLEAN, sameDayOk \in BOOLEAN :
          handleClockOutLocated(c, locationOk, readOk, sameDayOk)
    \/ \E c \in ControlsClients, ok \in BOOLEAN, refreshOk \in BOOLEAN : handleClockOutUpdated(c, ok, refreshOk)

SpecControls == ControlsInit /\ [][ControlsNext]_vars

---------------------------------------------------------------------------
(* Vocabulary of the properties *)

Max(a, b) == IF a >= b THEN a ELSE b
Min(a, b) == IF a <= b THEN a ELSE b

\* A calculateOvertime call has returned; its breakdown and its arguments.
Calculated == call.fn = "calculateOvertime" /\ result.fn = "calculateOvertime"
Classified == call.fn = "getDayType" /\ result.fn = "getDayType"
Rounded == call.fn = "roundToBlocks" /\ result.fn = "roundToBlocks"

\* Whole minutes from clock-in to clock-out, zero when the clock-out is not later.
ElapsedMinutesOf(k) ==
    IF k.clockOut <= k.clockIn THEN 0
    ELSE CHOOSE e \in 0..(MaxMinutes + 1) :
           /\ e * MsPerMinute <= k.clockOut - k.clockIn
           /\ k.clockOut - k.clockIn < (e + 1) * MsPerMinute

\* The schedule table of the specification, section 4.2.
ThresholdOf(dayType) ==
    CASE dayType = "weekday" -> 600
      [] dayType = "weekend" -> 360
      [] dayType = "public_holiday" -> 540

FirstTierOf(b) ==
    CASE b.dayType = "weekday" -> b.fixedOTMinutes
      [] b.dayType = "weekend" -> b.otMinutes1x
      [] b.dayType = "public_holiday" -> b.otMinutes2x

OverflowOf(b) ==
    CASE b.dayType = "weekday" -> b.otMinutes1_5x
      [] b.dayType = "weekend" -> b.otMinutes1_5x
      [] b.dayType = "public_holiday" -> b.otMinutes3x

TierMinutesSum(b) ==
    b.fixedOTMinutes + b.otMinutes1x + b.otMinutes1_5x + b.otMinutes2x + b.otMinutes3x

\* The calendar day of an instant, and whether that day is a Saturday or a
\* Sunday (1970-01-03 was a Saturday).
CalendarDay(t) == CHOOSE d \in 0..(MaxDay + 2) : d * MsPerDay <= t /\ t < (d + 1) * MsPerDay
IsWeekendDay(d) == d % 7 \in {2, 3}

\* The classification of section 4.1, in its order of precedence.
ExpectedDayType(t, override) ==
    IF override = "true" THEN "public_holiday"
    ELSE IF CalendarDay(t) \in Range(PUBLIC_HOLIDAYS) THEN "public_holiday"
    ELSE IF IsWeekendDay(CalendarDay(t)) THEN "weekend"
    ELSE "weekday"

\* The least multiple of 30 that is >= m.
LeastBlockMultiple(m) ==
    CHOOSE r \in 0..(m + 30) : r % 30 = 0 /\ r >= m /\ \A q \in 0..(r - 1) : ~(q % 30 = 0 /\ q >= m)

---------------------------------------------------------------------------
(* C1 *)

\* C1: in every breakdown returned by calculateOvertime, the five tier-minute
\* fields add up to max(0, elapsed minutes between clock-in and clock-out).
C1_Conservation ==
    Calculated => TierMinutesSum(result.value) = Max(0, ElapsedMinutesOf(call))

\* A session that straddles a threshold has been split into two tiers.
C1_Witness ==
    /\ Calculated
    /\ FirstTierOf(result.value) > 0
    /\ OverflowOf(result.value) > 0
    /\ call.cumulativeMinutesWorkedToday > 0

---------------------------------------------------------------------------
(* C2 *)

\* C2: for a session of positive duration, when the minutes already worked
\* reach the day type's threshold every minute is in the overflow tier, and
\* when the minutes already worked plus the session stay within the threshold
\* (equality included) every minute is in the first tier.
C2_WholeSessionInOneTier ==
    Calculated /\ result.value.duration > 0 =>
        LET b == result.value
            before == call.cumulativeMinutesWorkedToday
            T == ThresholdOf(b.dayType)
        IN /\ before >= T => OverflowOf(b) = b.duration /\ FirstTierOf(b) = 0
           /\ before + b.duration <= T => FirstTierOf(b) = b.duration /\ OverflowOf(b) = 0

\* A session longer than the threshold, priced after the threshold was reached.
C2_Witness ==
    /\ Calculated
    /\ call.cumulativeMinutesWorkedToday >= ThresholdOf(result.value.dayType)
    /\ result.value.duration > ThresholdOf(result.value.dayType)
    /\ OverflowOf(result.value) = result.value.duration

---------------------------------------------------------------------------
(* C3 *)

\* C3: a session that starts below the threshold T and ends above it has
\* exactly T - before minutes in the first tier and before + dur - T minutes
\* in the overflow tier.
C3_StraddleSplit ==
    Calculated =>
        LET b == result.value
            before == call.cumulativeMinutesWorkedToday
            T == ThresholdOf(b.dayType)
        IN before < T /\ before + b.duration > T =>
             /\ FirstTierOf(b) = T - before
             /\ OverflowOf(b) = before + b.duration - T

\* Scenario B: weekend, 300 minutes before, a session of 180 minutes: 60 + 120.
C3_Witness ==
    /\ Calculated
    /\ result.value.dayType = "weekend"
    /\ call.cumulativeMinutesWorkedToday = 300
    /\ result.value.duration = 180
    /\ result.value.otMinutes1x = 60
    /\ result.value.otMinutes1_5x = 120

---------------------------------------------------------------------------
(* C4 *)

\* The first-tier and overflow minutes of a breakdown under day type k.
FirstTierAt(k, b) ==
    CASE k = "weekday" -> b.fixedOTMinutes
      [] k = "weekend" -> b.otMinutes1x
      [] k = "public_holiday" -> b.otMinutes2x

OverflowAt(k, b) ==
    CASE k = "public_holiday" -> b.otMinutes3x
      [] OTHER -> b.otMinutes1_5x

RECURSIVE SumOver(_, _)
SumOver(f, S) ==
    IF S = {} THEN 0
    ELSE LET i == CHOOSE x \in S : TRUE
         IN f[i] + SumOver(f, S \ {i})

\* The day type of a stored session: the row's day_type column.
SessionDayType(i) == work_logs[i].day_type

\* The sessions of the user of session i that were clocked in on the calendar
\* day of session i.
SessionsOfDay(i) ==
    {j \in 1..Len(work_logs) :
        /\ work_logs[j].user_id = work_logs[i].user_id
        /\ CalendarDay(work_logs[j].clock_in) = CalendarDay(work_logs[i].clock_in)}

\* The sessions of a day were worked one after the other: all clocked out,
\* once each, none clocked in while another was open, all of one day type.
Sequential(S, k) ==
    \A j \in S : /\ work_logs[j].clock_out # Null
                 /\ audit[j].updates = 1
                 /\ ~audit[j].overlapped
                 /\ SessionDayType(j) = k

DayTotalsFollowCumulativeMinutes(S, k) ==
    LET total == SumOver([j \in S |-> audit[j].calculation.duration], S)
        first == SumOver([j \in S |-> FirstTierAt(k, audit[j].calculation)], S)
        overflow == SumOver([j \in S |-> OverflowAt(k, audit[j].calculation)], S)
    IN /\ first = Min(ThresholdOf(k), total)
       /\ overflow = Max(0, total - ThresholdOf(k))

\* C4: for the sessions of one user clocked in on one calendar day, all of the
\* same day type, each clocked out through performClockOut before the next is
\* clocked in, the first-tier minutes summed over them are min(T, total
\* minutes of the day) and the overflow minutes summed are max(0, total - T).
C4_CumulativeTiering ==
    \A i \in 1..Len(work_logs) :
        Sequential(SessionsOfDay(i), SessionDayType(i)) =>
            DayTotalsFollowCumulativeMinutes(SessionsOfDay(i), SessionDayType(i))

\* The same statement for the days on which every clock-out read the store
\* without error.
CumulativeTieringWhenReadsSucceed ==
    \A i \in 1..Len(work_logs) :
        /\ Sequential(SessionsOfDay(i), SessionDayType(i))
        /\ \A j \in SessionsOfDay(i) : ~audit[j].readFailed
        => DayTotalsFollowCumulativeMinutes(SessionsOfDay(i), SessionDayType(i))

\* Two sequential sessions of a day crossed the threshold with every read
\* answered, and were tiered on the day's cumulative minutes.
TwoSessionsCrossedThreshold ==
    \E i \in 1..Len(work_logs) :
        LET S == SessionsOfDay(i)
            k == SessionDayType(i)
        IN /\ Cardinality(S) = 2
           /\ Sequential(S, k)
           /\ \A j \in S : ~audit[j].readFailed /\ audit[j].calculation.duration > 0
           /\ SumOver([j \in S |-> audit[j].calculation.duration], S) > ThresholdOf(k)
           /\ DayTotalsFollowCumulativeMinutes(S, k)

---------------------------------------------------------------------------
(* C5 *)

\* C5: when the elapsed minutes are not positive, every tier-minute field,
\* every tier-hour field and every tier amount is zero, totalOTAmount is zero
\* and totalAmount is the meal allowance: 30 ringgit if outstation, else 0.
C5_Degenerate ==
    Calculated /\ call.clockOut - call.clockIn < MsPerMinute =>
        LET b == result.value
        IN /\ TierMinutesSum(b) = 0
           /\ \A f \in {"fixedOTMinutes", "otMinutes1x", "otMinutes1_5x", "otMinutes2x",
                        "otMinutes3x", "fixedOTHours", "otHours1x", "otHours1_5x",
                        "otHours2x", "otHours3x", "otAmount1x", "otAmount1_5x",
                        "otAmount2x", "otAmount3x", "totalOTAmount"} : b[f] = 0
           /\ b.totalAmount = (IF call.isOutstationOvernight THEN 30 * AmountDen ELSE 0)

\* An outstation session whose clock-out is a full minute before its clock-in,
\* with minutes already worked.
C5_Witness ==
    /\ Calculated
    /\ call.clockOut - call.clockIn <= -MsPerMinute
    /\ call.isOutstationOvernight
    /\ call.cumulativeMinutesWorkedToday > 0
    /\ result.value.totalAmount = 30 * AmountDen

---------------------------------------------------------------------------
(* C6 *)

\* C6: every minute field of the breakdown, the duration included, is
\* non-negative for every input.
C6_MinuteFieldsNonNegative ==
    Calculated =>
        \A f \in {"duration", "fixedOTMinutes", "otMinutes1x", "otMinutes1_5x",
                  "otMinutes2x", "otMinutes3x"} : result.value[f] >= 0

---------------------------------------------------------------------------
(* C7 *)

\* C7: getDayType returns public_holiday when the override is true, else
\* public_holiday when the date's calendar day is in the holiday list (also on
\* a Saturday or Sunday), else weekend on Saturday and Sunday, else weekday.
C7_Precedence ==
    Classified =>
        /\ result.value = ExpectedDayType(call.date, call.isPublicHolidayOverride)
        /\ result.value \in {"weekday", "weekend", "public_holiday"}

\* A Saturday in the holiday list, classified without override.
C7_Witness ==
    /\ Classified
    /\ call.isPublicHolidayOverride # "true"
    /\ IsWeekendDay(CalendarDay(call.date))
    /\ CalendarDay(call.date) \in Range(PUBLIC_HOLIDAYS)
    /\ result.value = "public_holiday"

---------------------------------------------------------------------------
(* C8 *)

\* C8: every instant of the calendar day of a classified date gets the same
\* day type under the same holiday list and override, and the day type of a
\* breakdown is that of the clock-in's calendar day, wherever the session ends.
C8_CalendarDayOnly ==
    /\ Classified =>
         \A t \in ClockIns \cup {dayStartOf(CalendarDay(call.date)),
                                 dayEndOf(CalendarDay(call.date))} :
            CalendarDay(t) = CalendarDay(call.date) =>
               getDayType(t, call.isPublicHolidayOverride) = result.value
    /\ Calculated =>
         result.value.dayType =
            ExpectedDayType(dayStartOf(CalendarDay(call.clockIn)), call.isPublicHolidayOverride)

\* A session clocked in on Friday and out on Saturday is a weekday session.
C8_Witness ==
    /\ Calculated
    /\ result.value.duration > 0
    /\ CalendarDay(call.clockOut) = CalendarDay(call.clockIn) + 1
    /\ ExpectedDayType(call.clockOut, call.isPublicHolidayOverride) = "weekend"
    /\ result.value.dayType = "weekday"

---------------------------------------------------------------------------
(* C9 *)

\* C9: roundToBlocks(m) is the least multiple of 30 that is >= m, so it is
\* >= m with equality exactly at the multiples of 30, exceeds m by less than
\* 30, and is 0 at 0.
C9_BlockRounding ==
    Rounded =>
        LET m == call.minutes
            r == result.value
        IN /\ r = LeastBlockMultiple(m)
           /\ r >= m
           /\ (r = m) <=> (m % 30 = 0)
           /\ r - m < 30
           /\ m = 0 => r = 0

\* 160 minutes are billed as 180.
C9_Witness == Rounded /\ call.minutes = 160 /\ result.value = 180

---------------------------------------------------------------------------
(* C10 *)

\* C10: each paid tier's amount is its own minutes rounded up to a multiple of
\* 30, divided by 60, times 3200 / 26 / 8, times the tier's multiplier (1.0,
\* 1.5, 2.0, 3.0), and zero when the tier has no minutes.  In money units
\* (1 / (60 * 26 * 8 * 10) ringgit) that is rounded * 3200 * (10 * multiplier).
C10_PerTierPricing ==
    Calculated =>
        LET b == result.value
        IN /\ AmountDen = 60 * 26 * 8 * 10
           /\ b.otAmount1x = LeastBlockMultiple(b.otMinutes1x) * 3200 * 10
           /\ b.otAmount1_5x = LeastBlockMultiple(b.otMinutes1_5x) * 3200 * 15
           /\ b.otAmount2x = LeastBlockMultiple(b.otMinutes2x) * 3200 * 20
           /\ b.otAmount3x = LeastBlockMultiple(b.otMinutes3x) * 3200 * 30

\* Scenario C: public holiday, nothing before, 700 minutes: 540 minutes at
\* 2.0x and 160 minutes billed as 180 at 3.0x.
C10_Witness ==
    /\ Calculated
    /\ result.value.dayType = "public_holiday"
    /\ call.cumulativeMinutesWorkedToday = 0
    /\ result.value.duration = 700
    /\ result.value.otMinutes2x = 540
    /\ result.value.otMinutes3x = 160
    /\ result.value.otAmount2x = 540 * 3200 * 20
    /\ result.value.otAmount3x = 180 * 3200 * 30

---------------------------------------------------------------------------
(* C11 *)

\* C11: for every weekday session totalOTAmount is the price of the 1.5x
\* minutes alone, and when the minutes already worked plus the session's
\* minutes are at most 600, totalOTAmount is 0 while fixedOTMinutes is the
\* whole session.
C11_UnpaidTierNeverPriced ==
    Calculated /\ result.value.dayType = "weekday" =>
        LET b == result.value
        IN /\ b.totalOTAmount = LeastBlockMultiple(b.otMinutes1_5x) * 3200 * 15
           /\ call.cumulativeMinutesWorkedToday + ElapsedMinutesOf(call) <= 600 =>
                 /\ b.totalOTAmount = 0
                 /\ b.fixedOTMinutes = ElapsedMinutesOf(call)

\* A weekday session of ten hours exactly, nothing worked before: 600 unpaid
\* minutes and no overtime pay.
C11_Witness ==
    /\ Calculated
    /\ result.value.dayType = "weekday"
    /\ call.cumulativeMinutesWorkedToday = 0
    /\ result.value.fixedOTMinutes = 600
    /\ result.value.totalOTAmount = 0

---------------------------------------------------------------------------
(* C12 *)

\* C12: in every breakdown totalOTAmount is the sum of the four tier amounts,
\* without the allowance, and totalAmount is totalOTAmount plus mealAllowance;
\* on the degenerate path too.
C12_Totals ==
    Calculated =>
        LET b == result.value
        IN /\ b.totalOTAmount = b.otAmount1x + b.otAmount1_5x + b.otAmount2x + b.otAmount3x
           /\ b.totalAmount = b.totalOTAmount + b.mealAllowance

\* An outstation session with two paid tiers.
C12_Witness ==
    /\ Calculated
    /\ call.isOutstationOvernight
    /\ result.value.mealAllowance > 0
    /\ result.value.otAmount1x > 0
    /\ result.value.otAmount1_5x > 0
    /\ result.value.totalAmount > result.value.totalOTAmount

---------------------------------------------------------------------------
(* C13 *)

\* C13: mealAllowance is 30 ringgit exactly when the outstation flag is set and
\* 0 otherwise, whatever the day type, the duration and the minutes worked.
C13_Allowance ==
    Calculated =>
        result.value.mealAllowance = (IF call.isOutstationOvernight THEN 30 * AmountDen ELSE 0)

\* An outstation session that ends before it starts still carries the allowance.
C13_Witness ==
    /\ Calculated
    /\ call.isOutstationOvernight
    /\ call.clockOut < call.clockIn
    /\ result.value.totalOTAmount = 0
    /\ result.value.mealAllowance = 30 * AmountDen

---------------------------------------------------------------------------
(* C14 *)

\* The breakdown of the returned call with the outstation flag toggled.
Toggled ==
    calculateOvertime(call.clockIn, call.clockOut, ~call.isOutstationOvernight,
                      call.isPublicHolidayOverride, call.cumulativeMinutesWorkedToday)

\* C14: the breakdowns of two calls that differ only in the outstation flag
\* agree on every field but mealAllowance and totalAmount, and their
\* totalAmount differs by exactly the allowance.
C14_AllowanceIndependence ==
    Calculated =>
        LET b == result.value
            with == IF call.isOutstationOvernight THEN b ELSE Toggled
            without == IF call.isOutstationOvernight THEN Toggled ELSE b
        IN /\ \A f \in DOMAIN b \ {"mealAllowance", "totalAmount"} : with[f] = without[f]
           /\ with.mealAllowance # without.mealAllowance
           /\ with.totalAmount - without.totalAmount = 30 * AmountDen
           /\ with.totalAmount - without.totalAmount = with.mealAllowance - without.mealAllowance

\* An outstation public-holiday session with pay in both tiers.
C14_Witness ==
    /\ Calculated
    /\ call.isOutstationOvernight
    /\ result.value.otAmount2x > 0
    /\ result.value.otAmount3x > 0
    /\ Toggled.totalAmount = result.value.totalOTAmount

---------------------------------------------------------------------------
(* C17 *)

\* The other sessions of the user of session i that are completed and were
\* clocked in on the calendar day of session i.
CompletedSameDay(i) ==
    {j \in 1..Len(work_logs) :
        /\ j # i
        /\ work_logs[j].user_id = work_logs[i].user_id
        /\ work_logs[j].clock_out # Null
        /\ CalendarDay(work_logs[j].clock_in) = CalendarDay(work_logs[i].clock_in)}

\* A client's performClockOut calls calculateOvertime in this step.
Prices(c) ==
    /\ dashboards[c].h.calculation = NoCalculation
    /\ dashboards'[c].h.calculation # NoCalculation

PassesSameDaySum(c) ==
    LET i == dashboards'[c].h.logId
    IN dashboards'[c].h.cumulativeMinutes =
          SumOver([j \in CompletedSameDay(i) |-> work_logs[j].duration_minutes],
                  CompletedSameDay(i))

\* C17: the cumulative minutes performClockOut passes to calculateOvertime are
\* the sum of duration_minutes of the same user's other completed logs clocked
\* in on the calendar day of the session's clock-in, and of no other log.
C17_CumulativeIsSameDaySum ==
    [][\A c \in Clients : Prices(c) => PassesSameDaySum(c)]_vars

\* The same statement for the clock-outs whose two reads were answered.
CumulativeIsSameDaySumWhenReadsSucceed ==
    [][\A c \in Clients : Prices(c) /\ ~dashboards'[c].h.readFailed => PassesSameDaySum(c)]_vars

---------------------------------------------------------------------------
(* C18 *)

\* While the same-day query is pending the session is not priced, and the
\* update is pending only with the session priced.
PricedAfterQuery ==
    \A c \in Clients :
        /\ dashboards[c].h.pc = "aggregating" => dashboards[c].h.calculation = NoCalculation
        /\ dashboards[c].h.pc = "updating" => dashboards[c].h.calculation # NoCalculation

\* The session is priced in the step that ends the same-day query, or, when
\* the row was not read and no query is made, in the step that ends that read.
PricingStep ==
    \A c \in Clients :
        Prices(c) =>
            /\ dashboards'[c].h.pc = "updating"
            /\ \/ dashboards[c].h.pc = "aggregating"
               \/ dashboards[c].h.pc = "idle" /\ dashboards'[c].h.user_id = ""

\* A row is written with clock_out only by a client whose session is priced,
\* and with the values of that pricing.
UpdateStep ==
    \A i \in 1..Len(work_logs) :
        work_logs'[i] # work_logs[i] =>
            \E c \in Clients :
                LET h == dashboards[c].h
                IN /\ h.pc = "updating"
                   /\ h.logId = i
                   /\ h.calculation # NoCalculation
                   /\ work_logs'[i].clock_out = h.clockOut
                   /\ work_logs'[i].duration_minutes = h.calculation.duration
                   /\ work_logs'[i].overtime_amount = h.calculation.totalOTAmount

\* C18: in performClockOut the same-day query has ended, with rows or with an
\* error, before calculateOvertime is called, and calculateOvertime has
\* returned before the row is updated with clock_out, duration_minutes and
\* overtime_amount.
C18_Ordering ==
    /\ []PricedAfterQuery
    /\ [][PricingStep /\ UpdateStep]_vars

\* A clock-out whose query found minutes worked earlier, priced, its update pending.
C18_Witness ==
    \E c \in Clients :
        /\ dashboards[c].h.pc = "updating"
        /\ dashboards[c].h.user_id # ""
        /\ dashboards[c].h.cumulativeMinutes > 0
        /\ dashboards[c].h.calculation # NoCalculation
        /\ work_logs[dashboards[c].h.logId].clock_out = Null

---------------------------------------------------------------------------
(* C15 *)

\* C15: two calls of calculateOvertime with identical arguments return
\* identical breakdowns, whatever calls of the module, setPublicHolidays and
\* addPublicHolidays included, were made between them.
C15_SameArgumentsSameBreakdown ==
    Len(history) = 2 /\ history[1].call = history[2].call =>
        history[1].value = history[2].value

\* The same statement for two calls made with the clock-in's day in the holiday
\* list both times, or in it neither time.
SameArgumentsSameListSameBreakdown ==
    /\ Len(history) = 2
    /\ history[1].call = history[2].call
    /\ history[1].listed = history[2].listed
    => history[1].value = history[2].value

---------------------------------------------------------------------------
(* C16 *)

\* A call of calculateOvertime, getDayType or getPublicHolidays returns in this step.
ReadOnlyCallReturns ==
    /\ call.fn \in {"calculateOvertime", "getDayType", "getPublicHolidays"}
    /\ result = NoResult
    /\ result' # NoResult

\* The breakdown holds minutes, hours and amounts in the two tiers of its day
\* type only.
OnlyOwnTiers(b) ==
    /\ TierMinutesSum(b) = FirstTierOf(b) + OverflowOf(b)
    /\ b.fixedOTHours + b.otHours1x + b.otHours1_5x + b.otHours2x + b.otHours3x
          = FirstTierOf(b) + OverflowOf(b)
    /\ b.dayType = "weekday" => b.otAmount1x = 0 /\ b.otAmount2x = 0 /\ b.otAmount3x = 0
    /\ b.dayType = "weekend" => b.otAmount2x = 0 /\ b.otAmount3x = 0
    /\ b.dayType = "public_holiday" => b.otAmount1x = 0 /\ b.otAmount1_5x = 0

\* C16: calculateOvertime, getDayType and getPublicHolidays leave the holiday
\* list as it is, and a breakdown carries nothing of the call before: it has
\* entries in the tiers of its own day type only, and it equals the breakdown
\* of the call before when the arguments are the same and the holiday list
\* holds the clock-in's day both times or neither time.
C16_SideEffectFree ==
    /\ [][ReadOnlyCallReturns => PUBLIC_HOLIDAYS' = PUBLIC_HOLIDAYS]_vars
    /\ [](\A n \in 1..Len(history) : OnlyOwnTiers(history[n].value))
    /\ []SameArgumentsSameListSameBreakdown

\* A weekday breakdown returned right after a public-holiday breakdown, with a
\* holiday list that is not empty.
C16_Witness ==
    /\ Len(history) = 2
    /\ history[2].value.dayType = "public_holiday"
    /\ history[2].value.otMinutes3x > 0
    /\ history[1].value.dayType = "weekday"
    /\ history[1].value.otMinutes3x = 0
    /\ PUBLIC_HOLIDAYS # <<>>
    /\ result.fn = "getPublicHolidays"

---------------------------------------------------------------------------
(* C19 *)

\* C19: after setPublicHolidays(H), whatever set and add calls came before,
\* getPublicHolidays returns the dates of H and getDayType without override
\* returns public_holiday for a date exactly when the date's day is in H.
C19_SetReplaces ==
    lastUpdate.fn = "setPublicHolidays" =>
        /\ getPublicHolidays = lastUpdate.holidays
        /\ \A date \in ClockIns :
              \A override \in {"false", "undefined"} :
                 (getDayType(date, override) = "public_holiday")
                    <=> (CalendarDay(date) \in Range(lastUpdate.holidays))

\* A list holding Saturday was replaced by one without it: Saturday is a
\* weekend day again, and Thursday a holiday.
C19_Witness ==
    /\ lastUpdate.fn = "setPublicHolidays"
    /\ 2 \in lastUpdate.before
    /\ lastUpdate.holidays = <<0>>
    /\ getDayType(2 * MsPerDay, "undefined") = "weekend"
    /\ getDayType(0, "undefined") = "public_holiday"
    /\ result.fn = "getPublicHolidays" => result.value = <<0>>

---------------------------------------------------------------------------
(* C20 *)

NoDuplicates(s) == \A i, j \in 1..Len(s) : s[i] = s[j] => i = j

\* addPublicHolidays is called in this step.
AddStep ==
    /\ lastUpdate'.fn = "addPublicHolidays"
    /\ lastUpdate' # lastUpdate \/ PUBLIC_HOLIDAYS' # PUBLIC_HOLIDAYS

\* C20: after addPublicHolidays(H) the dates of the list are those it held
\* before together with those of H; the list has no date twice; adding H
\* again leaves the list as it is; and adding any H2 next gives the union of
\* the three sets of dates, which does not depend on the order of the two
\* additions.
C20_AddIsUnion ==
    /\ [](lastUpdate.fn = "addPublicHolidays" =>
            /\ Range(PUBLIC_HOLIDAYS) = lastUpdate.before \cup Range(lastUpdate.holidays)
            /\ NoDuplicates(PUBLIC_HOLIDAYS))
    /\ [][AddStep /\ lastUpdate.fn = "addPublicHolidays" =>
            /\ lastUpdate'.holidays = lastUpdate.holidays => PUBLIC_HOLIDAYS' = PUBLIC_HOLIDAYS
            /\ Range(PUBLIC_HOLIDAYS') =
                  lastUpdate.before \cup Range(lastUpdate.holidays)
                     \cup Range(lastUpdate'.holidays)]_vars

\* A list with a duplicate, installed by setPublicHolidays and extended by
\* addPublicHolidays with a date it held and a new one.
C20_Witness ==
    /\ lastUpdate.fn = "addPublicHolidays"
    /\ lastUpdate.before = {0}
    /\ lastUpdate.holidays = <<0, 2>>
    /\ PUBLIC_HOLIDAYS = <<0, 2>>

---------------------------------------------------------------------------
(* C21 *)

\* Session i was completed by performClockOut.
Completed(i) == work_logs[i].clock_out # Null

PricedAsFlagged(i) ==
    /\ audit[i].calculation.dayType = "public_holiday"
    /\ work_logs[i].day_type = audit[i].calculation.dayType

\* C21: a session stored with is_public_holiday true at clock-in is priced on
\* the public_holiday schedule when performClockOut completes it, and the
\* day_type written at clock-out is the day type of the breakdown whose
\* amount was stored.
C21_FlaggedHolidayPricedAsHoliday ==
    \A i \in 1..Len(work_logs) :
        /\ Completed(i) /\ work_logs[i].is_public_holiday => PricedAsFlagged(i)
        /\ Completed(i) => work_logs[i].day_type = audit[i].calculation.dayType

\* The same statement for the clock-outs whose reads were answered.
FlaggedHolidayPricedAsHolidayWhenReadsSucceed ==
    \A i \in 1..Len(work_logs) :
        Completed(i) /\ work_logs[i].is_public_holiday /\ ~audit[i].readFailed
            => PricedAsFlagged(i)

---------------------------------------------------------------------------
(* C22 *)

\* What performClockOut would have priced for session i with the outstation
\* flag the other way round.
OtherOutstationChoice(i) ==
    calculateOvertime(work_logs[i].clock_in, work_logs[i].clock_out,
                      ~work_logs[i].is_outstation,
                      JsBool(audit[i].calculation.dayType = "public_holiday"),
                      audit[i].cumulativeMinutes)

\* C22: the overtime_amount performClockOut stores is the breakdown's
\* totalOTAmount, the sum of the four tier amounts without the meal
\* allowance; the same clock-out with the outstation flag the other way round
\* would store the same overtime_amount and duration_minutes, and
\* is_outstation is the flag.
C22_StoredAmountExcludesAllowance ==
    \A i \in 1..Len(work_logs) :
        Completed(i) =>
            LET b == audit[i].calculation
                row == work_logs[i]
            IN /\ row.overtime_amount = b.totalOTAmount
               /\ row.overtime_amount = b.otAmount1x + b.otAmount1_5x + b.otAmount2x + b.otAmount3x
               /\ row.duration_minutes = b.duration
               /\ row.is_outstation <=> (b.mealAllowance = 30 * AmountDen)
               /\ ~row.is_outstation <=> (b.mealAllowance = 0)
               /\ OtherOutstationChoice(i).totalOTAmount = row.overtime_amount
               /\ OtherOutstationChoice(i).duration = row.duration_minutes

\* An outstation session with overtime pay has been clocked out.
C22_Witness ==
    \E i \in 1..Len(work_logs) :
        /\ Completed(i)
        /\ work_logs[i].is_outstation
        /\ work_logs[i].overtime_amount > 0
        /\ audit[i].calculation.totalAmount = work_logs[i].overtime_amount + 30 * AmountDen

---------------------------------------------------------------------------
(* C23 *)

\* fetchMonthlyLogs, timeService.ts:481-497: the user's completed logs clocked
\* in during the month (every instant of the model lies in January 1970).
fetchMonthlyLogs(userId) ==
    {i \in 1..Len(work_logs) : work_logs[i].user_id = userId /\ work_logs[i].clock_out # Null}

\* The breakdown the monthly report recomputes for a completed log: four
\* arguments, the cumulative minutes left at their default.
RecalculatedBreakdown(log) ==
    calculateOvertime(log.clock_in, log.clock_out, log.is_outstation,
                      JsBool(log.is_public_holiday), 0)

\* calculateMonthlyTotals: totalOTPay, the recomputed totalOTAmount summed.
calculateMonthlyTotals(logs) ==
    [totalOTPay |-> SumOver([i \in logs |-> RecalculatedBreakdown(work_logs[i]).totalOTAmount], logs)]

\* transformLogsToRecords: the otAmount of a log's record.
transformLogsToRecords(logs) ==
    [i \in logs |-> [otAmount |-> RecalculatedBreakdown(work_logs[i]).totalOTAmount]]

\* fetchMonthlySummary, timeService.ts:443-460: the stored amounts summed.
fetchMonthlySummary(userId) ==
    SumOver([i \in fetchMonthlyLogs(userId) |-> work_logs[i].overtime_amount],
            fetchMonthlyLogs(userId))

\* C23: for every completed work log the OT amount recomputed by the monthly
\* report equals the overtime_amount performClockOut stored for it, and the
\* report's totalOTPay equals the sum of the stored amounts of the month.
C23_MonthlyTotalsMatchStored ==
    \A u \in {session[c] : c \in Clients} :
        LET logs == fetchMonthlyLogs(u)
        IN /\ \A i \in logs : transformLogsToRecords(logs)[i].otAmount = work_logs[i].overtime_amount
           /\ calculateMonthlyTotals(logs).totalOTPay = fetchMonthlySummary(u)

\* The same statement for the logs that were the only session of their user
\* on their day.
MonthlyRecordsMatchStoredForSingleSessionDays ==
    \A i \in 1..Len(work_logs) :
        Completed(i) /\ SessionsOfDay(i) = {i} /\ audit[i].updates = 1 =>
            RecalculatedBreakdown(work_logs[i]).totalOTAmount = work_logs[i].overtime_amount

---------------------------------------------------------------------------
(* C24 *)

\* The tier fields of a breakdown: minutes, hours and amounts.
TierFields ==
    {"fixedOTMinutes", "otMinutes1x", "otMinutes1_5x", "otMinutes2x", "otMinutes3x", "fixedOTHours", "otHours1x", "otHours1_5x", "otHours2x", "otHours3x", "otAmount1x", "otAmount1_5x", "otAmount2x", "otAmount3x"}

\* The tier fields of the schedule of a day type.
ScheduleFields(dayType) ==
    CASE dayType = "weekday" -> {"fixedOTMinutes", "fixedOTHours", "otMinutes1_5x", "otHours1_5x", "otAmount1_5x"}
      [] dayType = "weekend" -> {"otMinutes1x", "otHours1x", "otAmount1x", "otMinutes1_5x", "otHours1_5x", "otAmount1_5x"}
      [] dayType = "public_holiday" -> {"otMinutes2x", "otHours2x", "otAmount2x", "otMinutes3x", "otHours3x", "otAmount3x"}

\* C24: in every breakdown only the fields of the schedule of its day type can
\* be non-zero: weekday fixedOT and 1.5x, weekend 1.0x and 1.5x, public holiday
\* 2.0x and 3.0x; every other tier's minutes, hours and amount are 0, and on a
\* weekday the 1.5x amount is the only amount that can be non-zero.
C24_OneScheduleActive ==
    Calculated =>
        LET b == result.value
        IN /\ b.dayType \in {"weekday", "weekend", "public_holiday"}
           /\ \A f \in TierFields \ ScheduleFields(b.dayType) : b[f] = 0
           /\ b.dayType = "weekday" => b.totalOTAmount = b.otAmount1_5x

\* A weekend breakdown with minutes and pay in both of its tiers.
C24_Witness ==
    /\ Calculated
    /\ result.value.dayType = "weekend"
    /\ result.value.otMinutes1x > 0 /\ result.value.otAmount1x > 0
    /\ result.value.otMinutes1_5x > 0 /\ result.value.otAmount1_5x > 0
    /\ result.value.fixedOTMinutes = 0

---------------------------------------------------------------------------
(* C25 *)

\* What the older variant returns for the arguments of the call.
LegacyResult ==
    Legacy_calculateOvertime(call.clockIn, call.clockOut, call.isOutstationOvernight,
                             call.isPublicHolidayOverride)

\* C25: calculateOvertime called with cumulativeMinutesWorkedToday = 0 returns
\* the breakdown the older cumulative-agnostic calculateOvertime returns for
\* the same clock-in, clock-out, outstation flag, override and holiday list;
\* where the two breakdowns differ, the cumulative minutes are positive.
C25_SameAsLegacyAtZero ==
    Calculated =>
        /\ call.cumulativeMinutesWorkedToday = 0 => result.value = LegacyResult
        /\ result.value # LegacyResult => call.cumulativeMinutesWorkedToday > 0

\* A call with no minutes worked before and a session past the day's
\* threshold: both tiers filled, and the older variant agrees.
C25_Witness ==
    /\ Calculated
    /\ call.cumulativeMinutesWorkedToday = 0
    /\ FirstTierOf(result.value) > 0
    /\ OverflowOf(result.value) > 0
    /\ result.value = LegacyResult

\* The variants do differ for some call with minutes worked before.
LegacyDiffersAfterEarlierWork ==
    /\ Calculated
    /\ call.cumulativeMinutesWorkedToday > 0
    /\ result.value.totalOTAmount # LegacyResult.totalOTAmount

---------------------------------------------------------------------------
(* C26 *)

\* The users signed in on some client.
Users == {session[c] : c \in Clients}

\* C26: at every moment each user has at most one open work log (clock_out
\* null), whatever the interleaving of clock-ins and clock-outs of the user's
\* clients, so fetchActiveSession never finds two rows.
C26_AtMostOneOpenLog ==
    \A u \in Users :
        /\ Cardinality(OpenLogsOf(work_logs, u)) <= 1
        /\ ~fetchActiveSession(work_logs, u).error

---------------------------------------------------------------------------
(* C27 *)

\* WorkLogDetail.tsx:22-73: the cumulative minutes the detail view derives for
\* log i; they stay at their initial 0 when the query returns an error.
fetchCumulativeMinutes(i, ok) ==
    LET workLog == work_logs[i]
        dateStr == format(workLog.clock_in)
        sameDayLogs == {j \in 1..Len(work_logs) :
                          /\ work_logs[j].user_id = workLog.user_id
                          /\ work_logs[j].clock_out # Null
                          /\ j # i
                          /\ work_logs[j].clock_in >= dayStartOf(dateStr)
                          /\ work_logs[j].clock_in <= dayEndOf(dateStr)
                          /\ work_logs[j].clock_in < workLog.clock_in}
    IN IF ok THEN SumDurations(work_logs, sameDayLogs) ELSE 0

\* WorkLogDetail.tsx:75-86: the breakdown the detail view recomputes.
DetailBreakdown(i, ok) ==
    calculateOvertime(work_logs[i].clock_in, work_logs[i].clock_out, work_logs[i].is_outstation,
                      JsBool(work_logs[i].is_public_holiday), fetchCumulativeMinutes(i, ok))

\* WorkLogDetail.tsx:150: the stored-versus-recalculated warning, shown when
\* the amounts are more than a cent apart.
WarningShown(i, ok) ==
    LET d == DetailBreakdown(i, ok).totalOTAmount - work_logs[i].overtime_amount
    IN 100 * (IF d < 0 THEN -d ELSE d) > AmountDen

\* The sessions of the user of log i never overlap: each is clocked out, once,
\* before the next is clocked in.
NeverOverlapped(i) ==
    \A j, k \in 1..Len(work_logs) :
        /\ work_logs[j].user_id = work_logs[i].user_id
        /\ work_logs[k].user_id = work_logs[i].user_id
        /\ j < k
        => /\ work_logs[j].clock_out # Null
           /\ work_logs[j].clock_out <= work_logs[k].clock_in
           /\ audit[j].updates = 1
           /\ ~audit[k].overlapped

\* C27: for a user whose sessions never overlap, with the holiday list
\* unchanged, the detail view of a completed log derives the cumulative
\* minutes performClockOut used, recomputes the stored overtime_amount as
\* totalOTAmount, and does not show the stored-versus-recalculated warning.
C27_DetailMatchesStored ==
    \A i \in 1..Len(work_logs), ok \in BOOLEAN :
        Completed(i) /\ NeverOverlapped(i) =>
            /\ fetchCumulativeMinutes(i, ok) = audit[i].cumulativeMinutes
            /\ DetailBreakdown(i, ok).totalOTAmount = work_logs[i].overtime_amount
            /\ ~WarningShown(i, ok)

\* The same statement where the reads of performClockOut and of the detail
\* view were answered.
DetailMatchesStoredWhenReadsSucceed ==
    \A i \in 1..Len(work_logs) :
        Completed(i) /\ NeverOverlapped(i) /\ ~audit[i].readFailed =>
            /\ fetchCumulativeMinutes(i, TRUE) = audit[i].cumulativeMinutes
            /\ DetailBreakdown(i, TRUE).totalOTAmount = work_logs[i].overtime_amount
            /\ ~WarningShown(i, TRUE)

\* A second session of a day, priced past the threshold after the first.
SecondSessionPastThreshold ==
    \E i \in 1..Len(work_logs) :
        /\ Completed(i) /\ NeverOverlapped(i) /\ ~audit[i].readFailed
        /\ audit[i].cumulativeMinutes > 0
        /\ work_logs[i].overtime_amount > 0
        /\ OverflowOf(audit[i].calculation) > 0

---------------------------------------------------------------------------
(* C28 *)

\* Every session of the day has been priced, and the day as one session too.
DayPricedBothWays ==
    /\ call.fn = "splitDay"
    /\ result.fn = "splitDay"
    /\ result.value.priced = Len(call.sessions)
    /\ result.value.singleOTAmount # Null

\* C28: for every day type, the totalOTAmount summed over a day's consecutive
\* sessions, each priced with the minutes of the sessions before it as
\* cumulative minutes, is at least the totalOTAmount of one session of the
\* same total minutes priced from cumulative 0.
C28_SplittingNeverLowersPay ==
    DayPricedBothWays =>
        /\ result.value.cumulativeMinutes = SumSeq(call.sessions)
        /\ result.value.sessionsOTAmount >= result.value.singleOTAmount

\* A day of three sessions that crosses its threshold and is paid more in
\* sessions than as one session.
C28_Witness ==
    /\ DayPricedBothWays
    /\ Len(call.sessions) = 3
    /\ \A n \in 1..3 : call.sessions[n] > 0
    /\ result.value.cumulativeMinutes > WEEKDAY_FIXED_OT_MINUTES
    /\ result.value.singleOTAmount > 0
    /\ result.value.sessionsOTAmount > result.value.singleOTAmount

---------------------------------------------------------------------------
(* C29 *)

\* The clock-out last pressed on client c ended in the catch block.
ClockOutFailed(c) == dashboards[c].attempt.event = "failed"

\* The log is as it was when CLOCK OUT was pressed; an open log is still open
\* with no duration and no amount.
LeftAsPressed(c) ==
    LET a == dashboards[c].attempt
        row == work_logs[a.logId]
    IN /\ row = a.row
       /\ a.row.clock_out = Null =>
             row.clock_out = Null /\ row.duration_minutes = 0 /\ row.overtime_amount = 0

\* In this step the outstation choice of client c goes from set to cleared.
OutstationCleared(c) == dashboards[c].isOutstation /\ ~dashboards'[c].isOutstation

\* C29: after a clock-out that failed (the location lookup rejected, or
\* performClockOut threw because the update returned an error) the work log is
\* unchanged: clock_out null, duration_minutes and overtime_amount 0; the
\* error message is set, the outstation choice is the one the button was
\* pressed with, and actionLoading is false whenever no handler runs.  The
\* outstation choice is cleared by the handler only after a successful
\* clock-out (otherwise by the user, or by a new page).
C29_FailedClockOutKeepsSession ==
    /\ [](\A c \in Clients :
            /\ ClockOutFailed(c) =>
                  /\ LeftAsPressed(c)
                  /\ dashboards[c].errorMsg = ClockOutError
                  /\ dashboards[c].isOutstation = dashboards[c].attempt.isOutstation
                  /\ ~dashboards[c].actionLoading
            /\ dashboards[c].h.pc = "idle" => ~dashboards[c].actionLoading
            /\ dashboards[c].attempt.event = "succeeded" =>
                  /\ ~dashboards[c].isOutstation
                  /\ work_logs[dashboards[c].attempt.logId].clock_out # Null)
    /\ [][\A c \in Clients :
            OutstationCleared(c) =>
                dashboards'[c].attempt.event \in {"succeeded", "toggled", "mounted"}]_vars

\* A clock-out pressed with the outstation choice set failed at the update,
\* after the session was priced with worked minutes: the log is still open.
C29_Witness ==
    \E c \in Clients :
        /\ ClockOutFailed(c)
        /\ dashboards[c].isOutstation
        /\ dashboards[c].activeLog = dashboards[c].attempt.logId
        /\ work_logs[dashboards[c].attempt.logId].clock_out = Null
        /\ now > work_logs[dashboards[c].attempt.logId].clock_in
        /\ failures > 0

===========================================================================
